---- MODULE Spec2Model ----
(***************************************************************************)
(* Model of mant7s/qps-counter.                                            *)
(*                                                                         *)
(* Part 1: EnhancedGracefulShutdown (package counter), the lifecycle       *)
(* coordinator: StartRequest / EndRequest / Shutdown, with the goroutine   *)
(* that waits on the WaitGroup, the two deadline contexts derived from     *)
(* the caller's context, and sync.Once around the body of Shutdown.        *)
(* Every atomic operation of the code (an atomic Load/Store/Add, a         *)
(* WaitGroup call, a channel close, a select) is one step, so that every   *)
(* interleaving of the goroutines is a behaviour of the model. The         *)
(* WaitGroup is its counter: Add and Done change it, Wait returns when it  *)
(* is zero. Time is a count of ticks since the deadline contexts were      *)
(* created; a context's Done channel is ready once its deadline has passed *)
(* or its parent is done, and a select takes any case that is ready.       *)
(*                                                                         *)
(* Part 2: RateLimiter (package limiter), the token bucket. Every method   *)
(* runs under rl.mu, so every call is one step; Allow reads time.Now()     *)
(* inside the lock, so the calls see a clock that never runs backwards.    *)
(* Time is counted in clock steps, TicksPerSec to the second. The int64    *)
(* fields rate, burstSize and tokens keep a width (Int64Bits, scaled       *)
(* down): tokens += newTokens wraps, and the conversion int64(float64) of  *)
(* a value out of range gives what the build gives (the smallest int64 on  *)
(* amd64, the largest on arm64).                                           *)
(*                                                                         *)
(* Part 3: the two counters behind the Counter interface, LockFreeWindow   *)
(* and ShardedWindow, with the goroutines that call Incr, one caller of    *)
(* CurrentQPS and the cleaner. In LockFreeWindow every atomic Load, Add,   *)
(* Store and CompareAndSwap is one step. In ShardedWindow the body of Incr *)
(* (under the shard's read lock and the slot's lock), the visit of one     *)
(* slot by CurrentQPS and the replacement of one shard's slots by the      *)
(* cleaner (under the shard's write lock) are one step each. Timestamps    *)
(* are clock steps; the clock starts at StartTime > 0, as UnixNano does.   *)
(***************************************************************************)
EXTENDS Integers, Naturals, FiniteSets, Sequences

(* ----------------------------- bounds ---------------------------------- *)

\* request-handling goroutines that call StartRequest / EndRequest
NumReqs == 1
\* goroutines that call Shutdown
NumCallers == 2
\* largest timeout argument given to NewEnhancedGracefulShutdown (in ticks)
MaxTimeoutArg == 1
\* largest maxWait argument given to NewEnhancedGracefulShutdown (in ticks)
MaxWaitArg == 1

Reqs == 1..NumReqs
Callers == 1..NumCallers

\* clock steps per second for the limiter
TicksPerSec == 2
\* width of an int64 in the model
Int64Bits == 4
\* largest rate given to NewRateLimiter or SetRate (events per second)
MaxRate == 4
\* largest burstSize given to NewRateLimiter
MaxBurst == 4
\* clock steps followed after NewRateLimiter
MaxNow == 4
\* enabled Allow calls followed
MaxCalls == 5
\* clock steps and enabled Allow calls followed at a fixed rate
MaxSteadyNow == 8
MaxSteadyCalls == 20

\* config.Counter: precision, slot_num and window_size (in clock steps)
Precision == 2
SlotNum == 2
WindowSize == 3
\* clock steps per second for the counters: time.Second
Second == 3
\* runtime.NumCPU() * 4
NumShards == 2
\* goroutines that call Incr, and the calls each of them makes
NumWorkers == 2
MaxIncrs == 1
\* time.Now().UnixNano() when the counter is built, and the last instant followed
StartTime == 6
MaxTime == 10
\* the last instant followed when the calls are made one after the other
MaxSeqTime == 12
\* POST /collect: the largest count sent, and the requests each goroutine serves
MaxCount == 2
MaxCollects == 2
\* runtime.NumCPU()
NumCPU == 2
\* largest minShards and maxShards given to the sharding managers
MaxShardsArg == 5
\* largest memoryThreshold given to the enhanced manager, and the largest
\* memStats.Alloc read (both in units of 2^30 bytes)
MaxThresholdArg == 2
MaxMemory == 3
\* largest window_size, slot_num and precision read from the configuration
MaxCfgArg == 3
\* Incr calls made by the goroutine that races with the cleaner
MaxRaceIncrs == 4
\* largest qpsWeight and memoryWeight passed to SetWeights
MaxWeightArg == 1
\* goroutines that call the ShardedWindow concurrently, and the calls each makes
NumLockThreads == 3
MaxLockCalls == 1

Workers == 1..NumWorkers
\* the instants that are more than WindowSize before the last instant followed
EarlyTimes == StartTime..(MaxTime - WindowSize - 1)
Shards == 0..(NumShards - 1)
SlotIds == 0..(SlotNum - 1)

MaxInt64 == 2^(Int64Bits - 1) - 1
MinInt64 == -(2^(Int64Bits - 1))

(* ------------------------------ state ---------------------------------- *)

VARIABLES
    shutdownTimeout,  \* gs.shutdownTimeout
    maxWaitTime,      \* gs.maxWaitTime
    shutdownStarted,  \* gs.shutdownStarted (atomic.Bool)
    activeRequests,   \* gs.activeRequests (atomic.Int64)
    wgCount,          \* the counter of gs.wg (sync.WaitGroup)
    forceShutdown,    \* gs.forceShutdown (atomic.Bool)
    shutdownStatus,   \* gs.shutdownStatus
    stopChanClosed,   \* BaseComponent.stopChan is closed
    doneChanClosed,   \* gs.doneChan is closed
    onceState,        \* gs.shutdownOnce: "fresh", "running", "done"
    shutdownErr,      \* the local shutdownErr of the call that runs the Once body
    done,             \* the local channel done of Shutdown is closed
    ctxDone,          \* the ctx passed to Shutdown is cancelled or expired
    armed,            \* shutdownCtx and maxWaitCtx exist (their timers run)
    elapsed,          \* ticks since shutdownCtx and maxWaitCtx were created
    waiterPc,         \* the goroutine func() { gs.wg.Wait(); close(done) }
    sdPc,             \* per Shutdown caller: position in Shutdown
    sdRunner,         \* the caller that runs the Once body (0: none yet)
    sdResult,         \* per Shutdown caller: the value returned
    reqPc,            \* per request goroutine: position in StartRequest/EndRequest
    \* history variables, read by the properties only
    beganAfter,       \* the StartRequest call in progress or admitted began with shutdownStarted set
    rejectedAfter,    \* a StartRequest call that began with shutdownStarted set has returned false
    netAdmitted,      \* StartRequest calls that returned true minus EndRequest calls
    lateAtSoft,       \* an accepted request had not called EndRequest when the soft timeout expired
    lateAtHard,       \* an accepted request had not called EndRequest when max_wait expired
    endedBetween      \* the last request in flight called EndRequest between the two deadlines

VARIABLES
    rlRate,           \* rl.rate
    rlBurstSize,      \* rl.burstSize
    rlTokens,         \* rl.tokens
    rlLastRefill,     \* rl.lastRefill (clock steps since NewRateLimiter)
    rlEnabled,        \* rl.enabled
    rlRejectedCount,  \* rl.rejectedCount
    rlTotalCount,     \* rl.totalCount
    rlNow,            \* time.Now() (clock steps since NewRateLimiter)
    \* history variables, read by the properties only
    rlOp,             \* the last step: "New", "Allow", "SetRate", "SetEnabled", "Tick"
    rlResult,         \* what the last Allow returned
    rlNewTokens,      \* newTokens of the last enabled Allow
    rlRefilled,       \* rl.tokens after the refill step of the last enabled Allow
    rlAdmitted,       \* Allow calls that returned true while enabled
    rlSteady,         \* the rate has not been changed and the limiter never disabled
    rlSaturated,      \* the clock has only advanced after an Allow had returned false
    rlRateArg         \* the rate last given to NewRateLimiter or SetRate

rlVars == <<rlRate, rlBurstSize, rlTokens, rlLastRefill, rlEnabled, rlRejectedCount,
            rlTotalCount, rlNow>>
rlHistVars == <<rlOp, rlResult, rlNewTokens, rlRefilled, rlAdmitted, rlSteady,
                rlSaturated, rlRateArg>>

VARIABLES
    cType,            \* config.Counter.Type: "lockfree" or "sharded"
    slotTimestamp,    \* per shard and slot: timestamp (the lock-free ring is shard 0)
    slotCount,        \* per shard and slot: count
    totalCount,       \* totalCount of the counter
    cNow,             \* time.Now().UnixNano() (clock steps)
    wPc,              \* per Incr goroutine: position in Incr
    wNow,             \* per Incr goroutine: the local now
    wStored,          \* per Incr goroutine: the local stored
    wCalls,           \* per Incr goroutine: Incr calls made
    clPc,             \* the cleaner: position in cleanupExpired
    clNow,            \* the cleaner: the local now
    clIdx,            \* the cleaner: the loop index
    clSum,            \* the cleaner: the local newTotal
    tickPending,      \* the cleaner: a tick waits in ticker.C
    cStopChanClosed,  \* stopChan of the counter is closed
    cPanicked,        \* a call has panicked
    rdPc,             \* the caller of CurrentQPS: position
    rdNow,            \* the caller of CurrentQPS: the local now
    rdIdx,            \* the caller of CurrentQPS: slots visited
    rdTotal,          \* the caller of CurrentQPS: the local total
    qps,              \* what the last CurrentQPS returned
    \* history variables, read by the properties only
    returnedAt,       \* per instant that can leave the window: Incr calls that returned then
    returnedLate,     \* Incr calls that returned at a later instant
    firstNow,         \* the clock read by the first Incr call (0: none yet)
    lastNow,          \* the clock read by the latest Incr call (0: none yet)
    rdQuiet,          \* no Incr was in progress when the read began, none began since
    \* a counter of the other variant, given the same calls at the same instants
    twTimestamp,      \* per shard and slot: timestamp
    twCount,          \* per shard and slot: count
    twQps             \* what its last CurrentQPS returned

wVars == <<wPc, wNow, wStored, wCalls>>
clVars == <<clPc, clNow, clIdx, clSum, tickPending>>
rdVars == <<rdPc, rdNow, rdIdx, rdTotal, qps>>
cntHistVars == <<returnedAt, returnedLate, firstNow, lastNow, rdQuiet>>
twVars == <<twTimestamp, twCount, twQps>>
stopVars == <<cStopChanClosed, cPanicked>>
cntVars == <<cType, slotTimestamp, slotCount, totalCount, cNow, wVars, clVars, rdVars,
             cntHistVars, twVars, stopVars>>

VARIABLES
    hPc,              \* per request goroutine: position in QPSHandler.Collect
    hBody,            \* per request goroutine: the body of the request it serves
    hI,               \* per request goroutine: the loop variable i
    hResponse,        \* per request goroutine: the status answered (0: none yet)
    hServed,          \* per request goroutine: Collect calls made
    \* history variable, read by the properties only
    hBefore           \* per request goroutine: rl.tokens, rl.totalCount and the
                      \* Incr calls of the goroutine when Collect was called

hVars == <<hPc, hBody, hI, hResponse, hServed, hBefore>>

VARIABLES
    asmKind,          \* "basic": AdaptiveShardingManager, "enhanced": EnhancedAdaptiveShardingManager
    minShards,        \* asm.minShards
    maxShards,        \* asm.maxShards
    currentShards,    \* asm.currentShards
    lastQPS,          \* asm.lastQPS
    memoryThreshold,  \* asm.memoryThreshold (in units of 2^30 bytes)
    \* history variables, read by the properties only: the latest adjustShards
    tkRan,            \* adjustShards has run
    tkShards,         \* currentShards when it began
    tkLastQPS,        \* lastQPS when it began
    tkMemory,         \* the memStats.Alloc it read
    tkThreshold       \* the memoryThreshold it read

asmVars == <<asmKind, minShards, maxShards, currentShards, lastQPS, memoryThreshold>>
tkVars == <<tkRan, tkShards, tkLastQPS, tkMemory, tkThreshold>>

VARIABLES
    appConfig,        \* main: the AppConfig that config.Load unmarshals
    loadErr,          \* main: what validateConfig returned ("unloaded" before)
    mainPc,           \* main: position
    stopLog           \* main: the components stopped so far, in order

mainVars == <<appConfig, loadErr, mainPc, stopLog>>

VARIABLES
    weights,          \* asm.qpsWeight, asm.memoryWeight, and the memoryWeight that a
                      \* SetWeights call in progress has still to store
    twinShards,       \* currentShards of a second enhanced manager, which observes the
                      \* same readings
    twinWeights       \* the weights of the second manager

wtVars == <<weights, twinShards, twinWeights>>

VARIABLES
    shardLock,        \* ShardedWindow, per shard: shard.shardLock (sync.RWMutex)
    slotMutex,        \* ShardedWindow, per shard and slot: shard.slotMutex[slotID]
    lkThread,         \* per goroutine: the call it runs, its position, the shard and
                      \* the slot it is at
    lkCalls           \* per goroutine: calls begun

lkVars == <<shardLock, slotMutex, lkThread, lkCalls>>

VARIABLES
    strayPc,          \* a goroutine that calls EndRequest without StartRequest: position
    gsPanicked        \* gs.wg.Done() has panicked (negative WaitGroup counter)

strayVars == <<strayPc, gsPanicked>>

\* the components that take no part in the request path
sideVars == <<asmVars, tkVars, mainVars, strayVars, wtVars, lkVars>>

\* the state of the other components, which the lifecycle coordinator never touches
extVars == <<rlVars, rlHistVars, cntVars, hVars, sideVars>>

gsVars == <<shutdownTimeout, maxWaitTime, shutdownStarted, activeRequests, wgCount,
            forceShutdown, shutdownStatus, stopChanClosed, doneChanClosed, onceState,
            shutdownErr, done, ctxDone, armed, elapsed, waiterPc, sdPc, sdRunner,
            sdResult, reqPc>>
histVars == <<beganAfter, rejectedAfter, netAdmitted, lateAtSoft, lateAtHard,
              endedBetween>>
vars == <<gsVars, histVars, extVars>>

reqVars == <<reqPc, beganAfter, rejectedAfter, netAdmitted, endedBetween>>
sdVars == <<sdPc, sdRunner, sdResult, onceState, shutdownErr>>
cfgVars == <<shutdownTimeout, maxWaitTime>>
timeVars == <<ctxDone, armed, elapsed, lateAtSoft, lateAtHard>>

(* --------------------------- construction ------------------------------ *)

\* NewEnhancedGracefulShutdown: maxWait <= 0 defaults to twice the timeout
NewMaxWait(timeout, maxWait) == IF maxWait <= 0 THEN timeout * 2 ELSE maxWait

NewEnhancedGracefulShutdown(timeout, maxWait) ==
    /\ shutdownTimeout = timeout
    /\ maxWaitTime = NewMaxWait(timeout, maxWait)
    /\ shutdownStarted = FALSE
    /\ activeRequests = 0
    /\ wgCount = 0
    /\ forceShutdown = FALSE
    /\ shutdownStatus = "running"
    /\ stopChanClosed = FALSE
    /\ doneChanClosed = FALSE
    /\ onceState = "fresh"

\* the rest of the state when the coordinator has been built: no Shutdown
\* call, no request, no context yet
InitShutdownRest ==
    /\ strayPc = "idle"
    /\ gsPanicked = FALSE
    /\ shutdownErr = "nil"
    /\ done = FALSE
    /\ ctxDone = FALSE
    /\ armed = FALSE
    /\ elapsed = 0
    /\ waiterPc = "none"
    /\ sdPc = [c \in Callers |-> "idle"]
    /\ sdRunner = 0
    /\ sdResult = [c \in Callers |-> "none"]
    /\ reqPc = [r \in Reqs |-> "idle"]
    /\ beganAfter = [r \in Reqs |-> FALSE]
    /\ rejectedAfter = FALSE
    /\ netAdmitted = 0
    /\ lateAtSoft = FALSE
    /\ lateAtHard = FALSE
    /\ endedBetween = FALSE

(* ------------------------- observers ----------------------------------- *)

\* a Load that never sees the Store of Shutdown
LoadShutdownStartedStale == FALSE

\* gs.shutdownStarted.Load()
LoadShutdownStarted == shutdownStarted

\* ActiveRequests()
ActiveRequests == activeRequests

\* Status()
Status == shutdownStatus

\* IsForceShutdown()
IsForceShutdown == forceShutdown

\* requests whose StartRequest returned true and that have not called EndRequest
InFlight == {r \in Reqs : reqPc[r] = "in_flight"}

(* ------------------------- StartRequest -------------------------------- *)

\* what the request goroutines leave alone
ReqFrameShutdown ==
    /\ UNCHANGED <<shutdownStarted, forceShutdown, shutdownStatus,
                   stopChanClosed, doneChanClosed, done, waiterPc>>
    /\ UNCHANGED <<sdVars, cfgVars, timeVars>>

ReqFrame == ReqFrameShutdown /\ UNCHANGED extVars

\* a request goroutine calls StartRequest
StartRequestEnter(r) ==
    /\ reqPc[r] = "idle"
    /\ reqPc' = [reqPc EXCEPT ![r] = "sr_check"]
    /\ beganAfter' = [beganAfter EXCEPT ![r] = shutdownStarted]
    /\ UNCHANGED <<activeRequests, wgCount, rejectedAfter, netAdmitted>>
    /\ UNCHANGED endedBetween
    /\ ReqFrameShutdown

StartRequestCall(r) == StartRequestEnter(r) /\ UNCHANGED extVars

\* if gs.shutdownStarted.Load() { return false }
StartRequestCheck(r) ==
    /\ reqPc[r] = "sr_check"
    /\ IF LoadShutdownStarted
         THEN /\ reqPc' = [reqPc EXCEPT ![r] = "idle"]
              /\ rejectedAfter' = (rejectedAfter \/ beganAfter[r])
              /\ beganAfter' = [beganAfter EXCEPT ![r] = FALSE]
         ELSE /\ reqPc' = [reqPc EXCEPT ![r] = "sr_add_active"]
              /\ UNCHANGED <<rejectedAfter, beganAfter>>
    /\ UNCHANGED <<activeRequests, wgCount, netAdmitted>>
    /\ UNCHANGED endedBetween
    /\ ReqFrame

\* gs.activeRequests.Add(1)
StartRequestAddActive(r) ==
    /\ reqPc[r] = "sr_add_active"
    /\ activeRequests' = activeRequests + 1
    /\ reqPc' = [reqPc EXCEPT ![r] = "sr_add_wg"]
    /\ UNCHANGED <<wgCount, beganAfter, rejectedAfter, netAdmitted>>
    /\ UNCHANGED endedBetween
    /\ ReqFrame

\* gs.wg.Add(1)
StartRequestAddWg(r) ==
    /\ reqPc[r] = "sr_add_wg"
    /\ wgCount' = wgCount + 1
    /\ reqPc' = [reqPc EXCEPT ![r] = "sr_recheck"]
    /\ UNCHANGED <<activeRequests, beganAfter, rejectedAfter, netAdmitted>>
    /\ UNCHANGED endedBetween
    /\ ReqFrame

\* a second check that never sees the shutdown: a StartRequest without rollback
RecheckSeesShutdownNever == FALSE

\* the second gs.shutdownStarted.Load() of StartRequest
RecheckSeesShutdown == LoadShutdownStarted

\* if gs.shutdownStarted.Load() { roll back } else { return true }
StartRequestRecheck(r) ==
    /\ reqPc[r] = "sr_recheck"
    /\ IF RecheckSeesShutdown
         THEN /\ reqPc' = [reqPc EXCEPT ![r] = "sr_undo_active"]
              /\ UNCHANGED netAdmitted
         ELSE /\ reqPc' = [reqPc EXCEPT ![r] = "in_flight"]
              /\ netAdmitted' = netAdmitted + 1
    /\ UNCHANGED <<activeRequests, wgCount, beganAfter, rejectedAfter>>
    /\ UNCHANGED endedBetween
    /\ ReqFrame

\* rollback: gs.activeRequests.Add(-1)
StartRequestUndoActive(r) ==
    /\ reqPc[r] = "sr_undo_active"
    /\ activeRequests' = activeRequests - 1
    /\ reqPc' = [reqPc EXCEPT ![r] = "sr_undo_wg"]
    /\ UNCHANGED <<wgCount, beganAfter, rejectedAfter, netAdmitted>>
    /\ UNCHANGED endedBetween
    /\ ReqFrame

\* rollback: gs.wg.Done(); return false
StartRequestUndoWg(r) ==
    /\ reqPc[r] = "sr_undo_wg"
    /\ wgCount' = wgCount - 1
    /\ reqPc' = [reqPc EXCEPT ![r] = "idle"]
    /\ rejectedAfter' = (rejectedAfter \/ beganAfter[r])
    /\ beganAfter' = [beganAfter EXCEPT ![r] = FALSE]
    /\ UNCHANGED <<activeRequests, netAdmitted>>
    /\ UNCHANGED endedBetween
    /\ ReqFrame

(* --------------------------- EndRequest -------------------------------- *)

\* EndRequest, called by a request whose StartRequest returned true:
\* gs.activeRequests.Add(-1)
EndRequestDecActive(r) ==
    /\ reqPc[r] = "in_flight"
    /\ activeRequests' = activeRequests - 1
    /\ netAdmitted' = netAdmitted - 1
    /\ reqPc' = [reqPc EXCEPT ![r] = "er_done_wg"]
    /\ UNCHANGED <<wgCount, beganAfter, rejectedAfter>>
    /\ endedBetween' = (endedBetween \/
                          ( /\ armed
                            /\ elapsed >= shutdownTimeout
                            /\ elapsed < maxWaitTime
                            /\ \A q \in Reqs \ {r} : reqPc[q] = "idle" ))
    /\ ReqFrame

\* gs.wg.Done()
EndRequestDoneWg(r) ==
    /\ reqPc[r] = "er_done_wg"
    /\ wgCount' = wgCount - 1
    /\ reqPc' = [reqPc EXCEPT ![r] = "idle"]
    /\ beganAfter' = [beganAfter EXCEPT ![r] = FALSE]
    /\ UNCHANGED <<activeRequests, rejectedAfter, netAdmitted>>
    /\ UNCHANGED endedBetween
    /\ ReqFrame

(* ------------- EndRequest without a matching StartRequest -------------- *)

\* what the stray call leaves alone
StrayFrame ==
    /\ ReqFrameShutdown
    /\ UNCHANGED reqVars
    /\ UNCHANGED <<rlVars, rlHistVars, cntVars, hVars, asmVars, tkVars, mainVars, wtVars>>
    /\ UNCHANGED lkVars

\* EndRequest is called by a goroutine that holds no request: gs.activeRequests.Add(-1)
EndRequestStrayDecActive ==
    /\ strayPc = "idle"
    /\ activeRequests' = activeRequests - 1
    /\ strayPc' = "er_done_wg"
    /\ UNCHANGED <<wgCount, gsPanicked>>
    /\ StrayFrame

\* gs.wg.Done(): a WaitGroup counter that would go below zero panics
EndRequestStrayDoneWg ==
    /\ strayPc = "er_done_wg"
    /\ IF wgCount = 0
         THEN /\ gsPanicked' = TRUE
              /\ strayPc' = "panicked"
              /\ UNCHANGED wgCount
         ELSE /\ wgCount' = wgCount - 1
              /\ strayPc' = "returned"
              /\ UNCHANGED gsPanicked
    /\ UNCHANGED activeRequests
    /\ StrayFrame

EndRequestStray ==
    \/ EndRequestStrayDecActive
    \/ EndRequestStrayDoneWg

(* ------------------- contexts, timers and the clock -------------------- *)

\* the caller's ctx is cancelled or reaches its own deadline (main derives it
\* from context.WithTimeout(context.Background(), cfg.Shutdown.Timeout))
CtxCancel ==
    /\ ~ctxDone
    /\ onceState # "done"
    /\ ctxDone' = TRUE
    /\ UNCHANGED <<armed, elapsed, lateAtSoft, lateAtHard>>
    /\ UNCHANGED <<shutdownStarted, forceShutdown, shutdownStatus,
                   stopChanClosed, doneChanClosed, done, waiterPc>>
    /\ UNCHANGED <<sdVars, cfgVars, extVars, reqVars, activeRequests, wgCount>>

\* the clock is followed up to the later of the two deadlines
TimeCap == IF shutdownTimeout > maxWaitTime THEN shutdownTimeout ELSE maxWaitTime

\* one unit of time passes while the two deadline contexts live
Tick ==
    /\ armed
    /\ elapsed < TimeCap
    /\ elapsed' = elapsed + 1
    /\ lateAtSoft' = (lateAtSoft \/
                        (elapsed' = shutdownTimeout /\ \E r \in Reqs : reqPc[r] # "idle"))
    /\ lateAtHard' = (lateAtHard \/ (elapsed' = maxWaitTime /\ InFlight # {}))
    /\ UNCHANGED <<ctxDone, armed>>
    /\ UNCHANGED <<shutdownStarted, forceShutdown, shutdownStatus,
                   stopChanClosed, doneChanClosed, done, waiterPc>>
    /\ UNCHANGED <<sdVars, cfgVars, extVars, reqVars, activeRequests, wgCount>>

\* <-shutdownCtx.Done() can be received: context.WithTimeout(ctx, gs.shutdownTimeout)
\* is done when its own deadline has passed or when its parent ctx is done
ShutdownCtxDone == armed /\ (ctxDone \/ elapsed >= shutdownTimeout)

\* a Shutdown whose second select has no hard deadline
MaxWaitCtxDoneNever == FALSE

\* <-maxWaitCtx.Done() can be received: context.WithTimeout(ctx, gs.maxWaitTime)
MaxWaitCtxDone == armed /\ (ctxDone \/ elapsed >= maxWaitTime)

(* ------------------ the goroutine that waits for the drain ------------- *)

\* gs.wg.Wait() returns, the WaitGroup counter being zero, and close(done);
\* nothing else touches done, so the two are one step
WaiterWait ==
    /\ waiterPc = "wait"
    /\ wgCount = 0
    /\ done' = TRUE
    /\ waiterPc' = "exit"
    /\ UNCHANGED <<shutdownStarted, forceShutdown, shutdownStatus,
                   stopChanClosed, doneChanClosed>>
    /\ UNCHANGED <<sdVars, cfgVars, extVars, timeVars, reqVars, activeRequests, wgCount>>

(* ----------------------------- Shutdown -------------------------------- *)

\* Shutdown(ctx) is called: gs.shutdownOnce.Do runs the body in the first caller;
\* a later caller waits in Do until the body has returned
ShutdownCall(c) ==
    /\ sdPc[c] = "idle"
    /\ IF onceState = "fresh"
         THEN /\ onceState' = "running"
              /\ sdRunner' = c
              /\ sdPc' = [sdPc EXCEPT ![c] = "store_started"]
         ELSE /\ sdPc' = [sdPc EXCEPT ![c] = "once_wait"]
              /\ UNCHANGED <<onceState, sdRunner>>
    /\ UNCHANGED <<sdResult, shutdownErr>>
    /\ UNCHANGED <<shutdownStarted, forceShutdown, shutdownStatus,
                   stopChanClosed, doneChanClosed, done, waiterPc>>
    /\ UNCHANGED <<cfgVars, extVars, timeVars, reqVars, activeRequests, wgCount>>

\* a caller that did not run the body: Do returns once the body is over, and
\* Shutdown returns its own local shutdownErr, which nothing has assigned
ShutdownOnceSkipped(c) ==
    /\ sdPc[c] = "once_wait"
    /\ onceState = "done"
    /\ sdPc' = [sdPc EXCEPT ![c] = "returned"]
    /\ sdResult' = [sdResult EXCEPT ![c] = "nil"]
    /\ UNCHANGED <<onceState, sdRunner, shutdownErr>>
    /\ UNCHANGED <<shutdownStarted, forceShutdown, shutdownStatus,
                   stopChanClosed, doneChanClosed, done, waiterPc>>
    /\ UNCHANGED <<cfgVars, extVars, timeVars, reqVars, activeRequests, wgCount>>

\* gs.shutdownStarted.Store(true)
ShutdownStoreStarted(c) ==
    /\ sdPc[c] = "store_started"
    /\ shutdownStarted' = TRUE
    /\ sdPc' = [sdPc EXCEPT ![c] = "set_shutting_down"]
    /\ UNCHANGED <<onceState, sdRunner, sdResult, shutdownErr>>
    /\ UNCHANGED <<forceShutdown, shutdownStatus,
                   stopChanClosed, doneChanClosed, done, waiterPc>>
    /\ UNCHANGED <<cfgVars, extVars, timeVars, reqVars, activeRequests, wgCount>>

\* gs.SetStatus("shutting_down")
ShutdownSetShuttingDown(c) ==
    /\ sdPc[c] = "set_shutting_down"
    /\ shutdownStatus' = "shutting_down"
    /\ sdPc' = [sdPc EXCEPT ![c] = "stop"]
    /\ UNCHANGED <<onceState, sdRunner, sdResult, shutdownErr>>
    /\ UNCHANGED <<shutdownStarted, forceShutdown,
                   stopChanClosed, doneChanClosed, done, waiterPc>>
    /\ UNCHANGED <<cfgVars, extVars, timeVars, reqVars, activeRequests, wgCount>>

\* gs.Stop() closes stopChan; shutdownCtx and maxWaitCtx are created from ctx
\* (both timers start now); done := make(chan struct{}) and the goroutine
\* func() { gs.wg.Wait(); close(done) } is started. These steps touch nothing
\* another goroutine reads before the select, so they are one step.
\* (go gs.reportActiveRequests(done) only logs: it has no step here)
ShutdownStartWait(c) ==
    /\ sdPc[c] = "stop"
    /\ stopChanClosed' = TRUE
    /\ armed' = TRUE
    /\ elapsed' = 0
    /\ waiterPc' = "wait"
    /\ sdPc' = [sdPc EXCEPT ![c] = "select1"]
    /\ UNCHANGED <<ctxDone, lateAtSoft, lateAtHard>>
    /\ UNCHANGED <<onceState, sdRunner, sdResult, shutdownErr>>
    /\ UNCHANGED <<shutdownStarted, forceShutdown, shutdownStatus, doneChanClosed, done>>
    /\ UNCHANGED <<cfgVars, extVars, reqVars, activeRequests, wgCount>>

\* first select, case <-done: gs.SetStatus("graceful_shutdown_complete")
ShutdownSelect1Done(c) ==
    /\ sdPc[c] = "select1"
    /\ done
    /\ shutdownStatus' = "graceful_shutdown_complete"
    /\ sdPc' = [sdPc EXCEPT ![c] = "close_done"]
    /\ UNCHANGED <<onceState, sdRunner, sdResult, shutdownErr>>
    /\ UNCHANGED <<shutdownStarted, forceShutdown,
                   stopChanClosed, doneChanClosed, done, waiterPc>>
    /\ UNCHANGED <<cfgVars, extVars, timeVars, reqVars, activeRequests, wgCount>>

\* first select, case <-shutdownCtx.Done(): gs.SetStatus("timeout_waiting")
ShutdownSelect1Timeout(c) ==
    /\ sdPc[c] = "select1"
    /\ ShutdownCtxDone
    /\ shutdownStatus' = "timeout_waiting"
    /\ sdPc' = [sdPc EXCEPT ![c] = "select2"]
    /\ UNCHANGED <<onceState, sdRunner, sdResult, shutdownErr>>
    /\ UNCHANGED <<shutdownStarted, forceShutdown,
                   stopChanClosed, doneChanClosed, done, waiterPc>>
    /\ UNCHANGED <<cfgVars, extVars, timeVars, reqVars, activeRequests, wgCount>>

\* a second select whose case <-done reports the wrong label
ShutdownSelect2DoneAsGraceful(c) ==
    /\ sdPc[c] = "select2"
    /\ done
    /\ shutdownStatus' = "graceful_shutdown_complete"
    /\ sdPc' = [sdPc EXCEPT ![c] = "close_done"]
    /\ UNCHANGED <<onceState, sdRunner, sdResult, shutdownErr>>
    /\ UNCHANGED <<shutdownStarted, forceShutdown,
                   stopChanClosed, doneChanClosed, done, waiterPc>>
    /\ UNCHANGED <<cfgVars, extVars, timeVars, reqVars, activeRequests, wgCount>>

\* second select, case <-done: gs.SetStatus("delayed_shutdown_complete")
ShutdownSelect2Done(c) ==
    /\ sdPc[c] = "select2"
    /\ done
    /\ shutdownStatus' = "delayed_shutdown_complete"
    /\ sdPc' = [sdPc EXCEPT ![c] = "close_done"]
    /\ UNCHANGED <<onceState, sdRunner, sdResult, shutdownErr>>
    /\ UNCHANGED <<shutdownStarted, forceShutdown,
                   stopChanClosed, doneChanClosed, done, waiterPc>>
    /\ UNCHANGED <<cfgVars, extVars, timeVars, reqVars, activeRequests, wgCount>>

\* second select, case <-maxWaitCtx.Done(): gs.forceShutdown.Store(true)
ShutdownSelect2MaxWait(c) ==
    /\ sdPc[c] = "select2"
    /\ MaxWaitCtxDone
    /\ forceShutdown' = TRUE
    /\ sdPc' = [sdPc EXCEPT ![c] = "set_force"]
    /\ UNCHANGED <<onceState, sdRunner, sdResult, shutdownErr>>
    /\ UNCHANGED <<shutdownStarted, shutdownStatus,
                   stopChanClosed, doneChanClosed, done, waiterPc>>
    /\ UNCHANGED <<cfgVars, extVars, timeVars, reqVars, activeRequests, wgCount>>

\* a forced shutdown that forgets to report the error
ShutdownSetForceNoErr(c) ==
    /\ sdPc[c] = "set_force"
    /\ shutdownStatus' = "force_shutdown"
    /\ sdPc' = [sdPc EXCEPT ![c] = "close_done"]
    /\ UNCHANGED <<onceState, sdRunner, sdResult, shutdownErr>>
    /\ UNCHANGED <<shutdownStarted, forceShutdown,
                   stopChanClosed, doneChanClosed, done, waiterPc>>
    /\ UNCHANGED <<cfgVars, extVars, timeVars, reqVars, activeRequests, wgCount>>

\* gs.SetStatus("force_shutdown"); shutdownErr = context.DeadlineExceeded
ShutdownSetForce(c) ==
    /\ sdPc[c] = "set_force"
    /\ shutdownStatus' = "force_shutdown"
    /\ shutdownErr' = "DeadlineExceeded"
    /\ sdPc' = [sdPc EXCEPT ![c] = "close_done"]
    /\ UNCHANGED <<onceState, sdRunner, sdResult>>
    /\ UNCHANGED <<shutdownStarted, forceShutdown,
                   stopChanClosed, doneChanClosed, done, waiterPc>>
    /\ UNCHANGED <<cfgVars, extVars, timeVars, reqVars, activeRequests, wgCount>>

\* close(gs.doneChan)
ShutdownCloseDoneChan(c) ==
    /\ sdPc[c] = "close_done"
    /\ doneChanClosed' = TRUE
    /\ sdPc' = [sdPc EXCEPT ![c] = "return"]
    /\ UNCHANGED <<onceState, sdRunner, sdResult, shutdownErr>>
    /\ UNCHANGED <<shutdownStarted, forceShutdown, shutdownStatus,
                   stopChanClosed, done, waiterPc>>
    /\ UNCHANGED <<cfgVars, extVars, timeVars, reqVars, activeRequests, wgCount>>

\* the body returns (the deferred cancel and maxWaitCancel stop both timers),
\* Do returns, and Shutdown returns shutdownErr
ShutdownReturn(c) ==
    /\ sdPc[c] = "return"
    /\ armed' = FALSE
    /\ onceState' = "done"
    /\ sdResult' = [sdResult EXCEPT ![c] = shutdownErr]
    /\ sdPc' = [sdPc EXCEPT ![c] = "returned"]
    /\ UNCHANGED <<sdRunner, shutdownErr>>
    /\ UNCHANGED <<ctxDone, elapsed, lateAtSoft, lateAtHard>>
    /\ UNCHANGED <<shutdownStarted, forceShutdown, shutdownStatus,
                   stopChanClosed, doneChanClosed, done, waiterPc>>
    /\ UNCHANGED <<cfgVars, extVars, reqVars, activeRequests, wgCount>>

(* --------------------------- specification ----------------------------- *)

StartRequest(r) ==
    \/ StartRequestCall(r)
    \/ StartRequestCheck(r)
    \/ StartRequestAddActive(r)
    \/ StartRequestAddWg(r)
    \/ StartRequestRecheck(r)
    \/ StartRequestUndoActive(r)
    \/ StartRequestUndoWg(r)

EndRequest(r) ==
    \/ EndRequestDecActive(r)
    \/ EndRequestDoneWg(r)

Shutdown(c) ==
    \/ ShutdownCall(c)
    \/ ShutdownOnceSkipped(c)
    \/ ShutdownStoreStarted(c)
    \/ ShutdownSetShuttingDown(c)
    \/ ShutdownStartWait(c)
    \/ ShutdownSelect1Done(c)
    \/ ShutdownSelect1Timeout(c)
    \/ ShutdownSelect2Done(c)
    \/ ShutdownSelect2MaxWait(c)
    \/ ShutdownSetForce(c)
    \/ ShutdownCloseDoneChan(c)
    \/ ShutdownReturn(c)

Next ==
    \/ \E r \in Reqs : StartRequest(r)
    \/ \E r \in Reqs : EndRequest(r)
    \/ \E c \in Callers : Shutdown(c)
    \/ WaiterWait
    \/ CtxCancel
    \/ Tick

(* ===================== Part 2: RateLimiter ============================= *)

\* an int64 sum as the machine computes it
Wrap64(x) == ((x - MinInt64) % (2^Int64Bits)) + MinInt64

\* int64(f) for a float64 f with the whole value x: x itself when it fits;
\* out of range the result depends on the build
ToInt64(x) == IF x >= MinInt64 /\ x <= MaxInt64 THEN {x} ELSE {MinInt64, MaxInt64}

\* elapsed * float64(rl.rate), elapsed in seconds
ElapsedTimesRate(elapsedTicks, rate) == (elapsedTicks * rate) \div TicksPerSec

\* a bucket without a ceiling
CapTokensNone(tokens, burst) == tokens

\* if rl.tokens > rl.burstSize { rl.tokens = rl.burstSize }
CapTokens(tokens, burst) == IF tokens > burst THEN burst ELSE tokens

\* the refill step: rl.tokens after "if newTokens > 0 { ... }"
Refill(tokens, newTokens, burst) ==
    IF newTokens > 0 THEN CapTokens(Wrap64(tokens + newTokens), burst) ELSE tokens

\* a refill that never moves lastRefill
LastRefillKept(newTokens, now, last) == last

\* rl.lastRefill after the refill step: moved to now only when tokens were added
LastRefillAfter(newTokens, now, last) == IF newTokens > 0 THEN now ELSE last

\* an admission test that also passes on an empty bucket
TokenAvailableOnEmpty(tokens) == tokens >= 0

\* if rl.tokens > 0
TokenAvailable(tokens) == tokens > 0

\* NewRateLimiter(rate, burstSize, adaptive): the bucket starts full and enabled
NewRateLimiter(rate, burstSize) ==
    /\ rlRate = rate
    /\ rlBurstSize = burstSize
    /\ rlTokens = burstSize
    /\ rlLastRefill = 0
    /\ rlEnabled = TRUE
    /\ rlRejectedCount = 0
    /\ rlTotalCount = 0
    /\ rlNow = 0
    /\ rlOp = "New"
    /\ rlResult = TRUE
    /\ rlNewTokens = 0
    /\ rlRefilled = burstSize
    /\ rlAdmitted = 0
    /\ rlSteady = TRUE
    /\ rlSaturated = TRUE
    /\ rlRateArg = rate

\* what the limiter's calls leave alone
LimiterFrame == UNCHANGED <<gsVars, histVars, cntVars, hVars, sideVars>>

\* a disabled Allow that still counts the call
AllowDisabledCounting ==
    /\ ~rlEnabled
    /\ rlTotalCount < MaxCalls
    /\ rlTotalCount' = rlTotalCount + 1
    /\ rlOp' = "Allow"
    /\ rlResult' = TRUE
    /\ UNCHANGED <<rlRate, rlBurstSize, rlTokens, rlLastRefill, rlEnabled,
                   rlRejectedCount, rlNow>>
    /\ UNCHANGED <<rlNewTokens, rlRefilled, rlAdmitted, rlSteady, rlSaturated>>
    /\ UNCHANGED rlRateArg
    /\ LimiterFrame

\* Allow while disabled: if !rl.enabled { return true }
AllowDisabledCall ==
    /\ ~rlEnabled
    /\ rlOp' = "Allow"
    /\ rlResult' = TRUE
    /\ UNCHANGED rlVars
    /\ UNCHANGED <<rlNewTokens, rlRefilled, rlAdmitted, rlSteady, rlSaturated>>
    /\ UNCHANGED rlRateArg

AllowDisabled == AllowDisabledCall /\ LimiterFrame

\* rl.rejectedCount after a rejection that is not recorded
RejectedCountSame(n) == n

\* rl.rejectedCount++
RejectedCountNext(n) == n + 1

\* Allow while enabled, at most limit calls being followed: count the call,
\* refill from the time elapsed since lastRefill, then take a token or reject
AllowEnabledCall(limit) ==
    /\ rlEnabled
    /\ rlTotalCount < limit
    /\ rlTotalCount' = rlTotalCount + 1
    /\ \E newTokens \in ToInt64(ElapsedTimesRate(rlNow - rlLastRefill, rlRate)) :
          /\ rlNewTokens' = newTokens
          /\ rlRefilled' = Refill(rlTokens, newTokens, rlBurstSize)
          /\ rlLastRefill' = LastRefillAfter(newTokens, rlNow, rlLastRefill)
    /\ IF TokenAvailable(rlRefilled')
         THEN /\ rlTokens' = rlRefilled' - 1
              /\ rlResult' = TRUE
              /\ rlAdmitted' = rlAdmitted + 1
              /\ UNCHANGED rlRejectedCount
         ELSE /\ rlTokens' = rlRefilled'
              /\ rlResult' = FALSE
              /\ rlRejectedCount' = RejectedCountNext(rlRejectedCount)
              /\ UNCHANGED rlAdmitted
    /\ rlOp' = "Allow"
    /\ UNCHANGED <<rlRate, rlBurstSize, rlEnabled, rlNow, rlSteady, rlSaturated>>
    /\ UNCHANGED rlRateArg

AllowEnabled(limit) == AllowEnabledCall(limit) /\ LimiterFrame

\* a SetRate that also restarts the refill clock
SetRateRestarting(newRate) ==
    /\ rlRate' = newRate
    /\ rlRateArg' = newRate
    /\ rlLastRefill' = rlNow
    /\ rlOp' = "SetRate"
    /\ rlSteady' = (rlSteady /\ newRate = rlRate)
    /\ UNCHANGED <<rlBurstSize, rlTokens, rlEnabled, rlRejectedCount,
                   rlTotalCount, rlNow>>
    /\ UNCHANGED <<rlResult, rlNewTokens, rlRefilled, rlAdmitted, rlSaturated>>
    /\ LimiterFrame

\* SetRate(newRate): rl.rate = newRate
SetRate(newRate) ==
    /\ rlRate' = newRate
    /\ rlRateArg' = newRate
    /\ rlOp' = "SetRate"
    /\ rlSteady' = (rlSteady /\ newRate = rlRate)
    /\ UNCHANGED <<rlBurstSize, rlTokens, rlLastRefill, rlEnabled, rlRejectedCount,
                   rlTotalCount, rlNow>>
    /\ UNCHANGED <<rlResult, rlNewTokens, rlRefilled, rlAdmitted, rlSaturated>>
    /\ LimiterFrame

\* SetEnabled(enabled): rl.enabled = enabled
SetEnabled(enabled) ==
    /\ rlEnabled' = enabled
    /\ rlOp' = "SetEnabled"
    /\ rlSteady' = (rlSteady /\ enabled)
    /\ UNCHANGED <<rlRate, rlBurstSize, rlTokens, rlLastRefill, rlRejectedCount,
                   rlTotalCount, rlNow>>
    /\ UNCHANGED <<rlResult, rlNewTokens, rlRefilled, rlAdmitted, rlSaturated>>
    /\ UNCHANGED rlRateArg
    /\ LimiterFrame

\* the last call at the present instant was an Allow that returned false
RejectedNow == rlOp = "Allow" /\ ~rlResult

\* the clock read by time.Now() advances by one step, at most limit steps
\* being followed
ClockTick(limit) ==
    /\ rlNow < limit
    /\ rlNow' = rlNow + 1
    /\ rlSaturated' = (rlSaturated /\ RejectedNow)
    /\ rlOp' = "Tick"
    /\ UNCHANGED <<rlRate, rlBurstSize, rlTokens, rlLastRefill, rlEnabled,
                   rlRejectedCount, rlTotalCount>>
    /\ UNCHANGED <<rlResult, rlNewTokens, rlRefilled, rlAdmitted, rlSteady>>
    /\ UNCHANGED rlRateArg
    /\ LimiterFrame

\* Allow()
Allow(limit) == AllowDisabled \/ AllowEnabled(limit)

(* ========== Part 3: LockFreeWindow and ShardedWindow =================== *)

\* a ring with every slot empty: make([]atomicSlot, n) / &slot{}
EmptySlots == [s \in Shards |-> [i \in SlotIds |-> 0]]

\* NewCounter(cfg): NewLockFree or NewSharded by cfg.Type; the cleaner
\* goroutine is started and waits for its ticker
NewCounter(type) ==
    /\ cType = type
    /\ slotTimestamp = EmptySlots
    /\ slotCount = EmptySlots
    /\ totalCount = 0
    /\ cNow = StartTime
    /\ wPc = [g \in Workers |-> "idle"]
    /\ wNow = [g \in Workers |-> 0]
    /\ wStored = [g \in Workers |-> 0]
    /\ wCalls = [g \in Workers |-> 0]
    /\ clPc = "idle"
    /\ clNow = 0
    /\ clIdx = 0
    /\ clSum = 0
    /\ tickPending = FALSE
    /\ cStopChanClosed = FALSE
    /\ cPanicked = FALSE
    /\ rdPc = "idle"
    /\ rdNow = 0
    /\ rdIdx = 0
    /\ rdTotal = 0
    /\ qps = 0
    /\ returnedAt = [t \in EarlyTimes |-> 0]
    /\ returnedLate = 0
    /\ firstNow = 0
    /\ lastNow = 0
    /\ rdQuiet = FALSE
    /\ twTimestamp = EmptySlots
    /\ twCount = EmptySlots
    /\ twQps = 0

\* what the counter's steps leave alone
OutsideCounter ==
    UNCHANGED <<gsVars, histVars, rlVars, rlHistVars, hVars, sideVars, cType>>
CounterFrame == OutsideCounter /\ UNCHANGED <<stopVars, twVars>>

\* now / precision
Bucket(t) == t \div Precision

\* idx := (now / precision) % int64(len(lfw.slots)); slotID likewise
SlotOf(t) == Bucket(t) % SlotNum

\* shardID := (now / precisionNano) % int64(len(sw.shards)); the lock-free
\* ring is the row 0
ShardOf(t) == IF cType = "sharded" THEN Bucket(t) % NumShards ELSE 0

\* slotTime := now - (now % precisionNano)
SlotTime(t) == t - (t % Precision)

\* a window three times as long
WindowStartWide(t) == t - 3 * WindowSize

\* windowStart := now - int64(config.WindowSize)
WindowStart(t) == t - WindowSize

\* total * int64(time.Second) / int64(config.WindowSize)
ToQPS(total) == (total * Second) \div WindowSize

\* the clock read by time.Now() advances by one step; the ticker of
\* cleanupWorker, made when the counter was built, fires every Precision (a
\* tick that finds the last one still pending is dropped; no tick after the
\* worker has returned and stopped its ticker)
CounterTick(limit) ==
    /\ cNow < limit
    /\ cNow' = cNow + 1
    /\ tickPending' = ( /\ clPc # "returned"
                        /\ (tickPending \/ (cNow' - StartTime) % Precision = 0) )
    /\ UNCHANGED <<slotTimestamp, slotCount, totalCount, wVars, clPc, clNow, clIdx,
                   clSum, rdVars, cntHistVars>>
    /\ CounterFrame

(* ------------------------------- Incr ---------------------------------- *)

\* Incr is called: now := time.Now().UnixNano()
IncrCall(g, limit) ==
    /\ wPc[g] = "idle"
    /\ wCalls[g] < limit
    /\ wNow' = [wNow EXCEPT ![g] = cNow]
    /\ wCalls' = [wCalls EXCEPT ![g] = @ + 1]
    /\ wPc' = [wPc EXCEPT ![g] = IF cType = "sharded" THEN "locked" ELSE "load"]
    /\ firstNow' = IF firstNow = 0 THEN cNow ELSE firstNow
    /\ lastNow' = cNow
    /\ rdQuiet' = FALSE
    /\ UNCHANGED <<slotTimestamp, slotCount, totalCount, wStored, cNow, clVars,
                   rdVars, returnedAt, returnedLate>>

IncrBegin(g) == IncrCall(g, MaxIncrs) /\ CounterFrame

\* Incr returns
IncrReturned(g) ==
    /\ wPc' = [wPc EXCEPT ![g] = "idle"]
    /\ wNow' = [wNow EXCEPT ![g] = 0]
    /\ wStored' = [wStored EXCEPT ![g] = 0]
    /\ IF cNow \in EarlyTimes
         THEN /\ returnedAt' = [returnedAt EXCEPT ![cNow] = @ + 1]
              /\ UNCHANGED returnedLate
         ELSE /\ returnedLate' = returnedLate + 1
              /\ UNCHANGED returnedAt

\* LockFreeWindow: stored := slots[idx].timestamp.Load() and the two tests on
\* it; when neither holds the loop comes back here
LockFreeLoad(g) ==
    /\ cType = "lockfree"
    /\ wPc[g] = "load"
    /\ LET stored == slotTimestamp[0][SlotOf(wNow[g])]
           next == IF Bucket(stored) = Bucket(wNow[g]) THEN "add"
                   ELSE IF stored = 0 \/ stored < wNow[g] - Precision THEN "cas"
                   ELSE "load"
       IN \* stored is read again only by the CompareAndSwap
          /\ wStored' = [wStored EXCEPT ![g] = IF next = "cas" THEN stored ELSE 0]
          /\ wPc' = [wPc EXCEPT ![g] = next]
    /\ UNCHANGED <<slotTimestamp, slotCount, totalCount, wNow, wCalls, cNow,
                   clVars, rdVars, cntHistVars>>
    /\ CounterFrame

\* LockFreeWindow, same bucket: slots[idx].count.Add(1)
LockFreeAdd(g) ==
    /\ cType = "lockfree"
    /\ wPc[g] = "add"
    /\ slotCount' = [slotCount EXCEPT ![0][SlotOf(wNow[g])] = @ + 1]
    /\ wPc' = [wPc EXCEPT ![g] = "total"]
    /\ UNCHANGED <<slotTimestamp, totalCount, wNow, wStored, wCalls, cNow,
                   clVars, rdVars, cntHistVars>>
    /\ CounterFrame

\* LockFreeWindow: slots[idx].timestamp.CompareAndSwap(stored, now)
LockFreeCAS(g) ==
    /\ cType = "lockfree"
    /\ wPc[g] = "cas"
    /\ IF slotTimestamp[0][SlotOf(wNow[g])] = wStored[g]
         THEN /\ slotTimestamp' = [slotTimestamp EXCEPT ![0][SlotOf(wNow[g])] = wNow[g]]
              /\ wPc' = [wPc EXCEPT ![g] = "store"]
         ELSE /\ wPc' = [wPc EXCEPT ![g] = "load"]
              /\ UNCHANGED slotTimestamp
    /\ UNCHANGED <<slotCount, totalCount, wNow, wStored, wCalls, cNow,
                   clVars, rdVars, cntHistVars>>
    /\ CounterFrame

\* LockFreeWindow, after the CAS: slots[idx].count.Store(1)
LockFreeStore(g) ==
    /\ cType = "lockfree"
    /\ wPc[g] = "store"
    /\ slotCount' = [slotCount EXCEPT ![0][SlotOf(wNow[g])] = 1]
    /\ wPc' = [wPc EXCEPT ![g] = "total"]
    /\ UNCHANGED <<slotTimestamp, totalCount, wNow, wStored, wCalls, cNow,
                   clVars, rdVars, cntHistVars>>
    /\ CounterFrame

\* LockFreeWindow: lfw.totalCount.Add(1); return
LockFreeTotal(g) ==
    /\ cType = "lockfree"
    /\ wPc[g] = "total"
    /\ totalCount' = totalCount + 1
    /\ IncrReturned(g)
    /\ UNCHANGED <<slotTimestamp, slotCount, wCalls, cNow, clVars, rdVars, firstNow,
                   lastNow, rdQuiet>>
    /\ CounterFrame

\* the reader is between two slots of shard s: it holds s.shardLock for reading
ReaderInShard(s) ==
    /\ cType = "sharded"
    /\ rdPc = "scan"
    /\ rdIdx \div SlotNum = s
    /\ rdIdx % SlotNum # 0

\* ShardedWindow: under s.shardLock.RLock() and s.slotMutex[slotID].Lock():
\* move the timestamp forward (the count is not reset), count++, then
\* sw.totalCount.Add(1); the locks are released on return
ShardedIncr(g) ==
    /\ cType = "sharded"
    /\ wPc[g] = "locked"
    /\ LET s == ShardOf(wNow[g])
           i == SlotOf(wNow[g])
       IN /\ slotTimestamp' =
                 IF slotTimestamp[s][i] < SlotTime(wNow[g])
                   THEN [slotTimestamp EXCEPT ![s][i] = SlotTime(wNow[g])]
                   ELSE slotTimestamp
          /\ slotCount' = [slotCount EXCEPT ![s][i] = @ + 1]
    /\ totalCount' = totalCount + 1
    /\ IncrReturned(g)
    /\ UNCHANGED <<wCalls, cNow, clVars, rdVars, firstNow, lastNow, rdQuiet>>
    /\ CounterFrame

Incr(g) ==
    \/ IncrBegin(g)
    \/ LockFreeLoad(g)
    \/ LockFreeAdd(g)
    \/ LockFreeCAS(g)
    \/ LockFreeStore(g)
    \/ LockFreeTotal(g)
    \/ ShardedIncr(g)

(* ---------------------------- CurrentQPS ------------------------------- *)

\* slots the read walks through: the ring, or every slot of every shard
ReadLimit == IF cType = "sharded" THEN NumShards * SlotNum ELSE SlotNum

\* CurrentQPS is called: now := time.Now().UnixNano(); var total int64
CurrentQPSCall ==
    /\ rdPc \in {"idle", "done"}
    /\ rdPc' = "scan"
    /\ rdNow' = cNow
    /\ rdIdx' = 0
    /\ rdTotal' = 0
    /\ rdQuiet' = (\A g \in Workers : wPc[g] = "idle")
    /\ UNCHANGED <<qps, slotTimestamp, slotCount, totalCount, cNow, wVars, clVars,
                   returnedAt, returnedLate, firstNow, lastNow>>

ReadBegin == CurrentQPSCall /\ CounterFrame

\* LockFreeWindow: ts := slots[i].timestamp.Load(); if ts >= windowStart
LockFreeReadTimestamp ==
    /\ cType = "lockfree"
    /\ rdPc = "scan"
    /\ rdIdx < ReadLimit
    /\ IF slotTimestamp[0][rdIdx] >= WindowStart(rdNow)
         THEN /\ rdPc' = "count"
              /\ UNCHANGED rdIdx
         ELSE /\ rdIdx' = rdIdx + 1
              /\ UNCHANGED rdPc
    /\ UNCHANGED <<rdNow, rdTotal, qps, slotTimestamp, slotCount, totalCount, cNow,
                   wVars, clVars, cntHistVars>>
    /\ CounterFrame

\* LockFreeWindow: total += slots[i].count.Load()
LockFreeReadCount ==
    /\ cType = "lockfree"
    /\ rdPc = "count"
    /\ rdTotal' = rdTotal + slotCount[0][rdIdx]
    /\ rdIdx' = rdIdx + 1
    /\ rdPc' = "scan"
    /\ UNCHANGED <<rdNow, qps, slotTimestamp, slotCount, totalCount, cNow,
                   wVars, clVars, cntHistVars>>
    /\ CounterFrame

\* ShardedWindow: one slot under its RLock (the shard's RLock is held from
\* the first slot of the shard to the last)
ShardedReadSlot ==
    /\ cType = "sharded"
    /\ rdPc = "scan"
    /\ rdIdx < ReadLimit
    /\ LET s == rdIdx \div SlotNum
           i == rdIdx % SlotNum
       IN rdTotal' = IF slotTimestamp[s][i] >= WindowStart(rdNow)
                       THEN rdTotal + slotCount[s][i]
                       ELSE rdTotal
    /\ rdIdx' = rdIdx + 1
    /\ UNCHANGED <<rdPc, rdNow, qps, slotTimestamp, slotCount, totalCount, cNow,
                   wVars, clVars, cntHistVars>>
    /\ CounterFrame

\* return total * int64(time.Second) / int64(config.WindowSize)
ReadReturn ==
    /\ rdPc = "scan"
    /\ rdIdx = ReadLimit
    /\ qps' = ToQPS(rdTotal)
    /\ rdPc' = "done"
    /\ rdIdx' = 0
    /\ rdTotal' = 0
    /\ UNCHANGED <<rdNow, slotTimestamp, slotCount, totalCount, cNow,
                   wVars, clVars, cntHistVars>>
    /\ CounterFrame

CurrentQPS ==
    \/ ReadBegin
    \/ LockFreeReadTimestamp
    \/ LockFreeReadCount
    \/ ShardedReadSlot
    \/ ReadReturn

(* ------------------------- cleanupExpired ------------------------------ *)

\* cleanupWorker receives from ticker.C and calls cleanupExpired:
\* now := time.Now().UnixNano()
cleanupExpiredCall ==
    /\ clPc = "idle"
    /\ tickPending
    /\ tickPending' = FALSE
    /\ clNow' = cNow
    /\ clIdx' = 0
    /\ clSum' = 0
    /\ clPc' = IF cType = "sharded" THEN "swap" ELSE "expire"
    /\ UNCHANGED <<slotTimestamp, slotCount, totalCount, cNow, wVars, rdVars,
                   cntHistVars>>

CleanupBegin == cleanupExpiredCall /\ CounterFrame

\* the loop "for i := range slots" goes on to slot clIdx + 1, or is over
LoopNext(again, after) ==
    /\ clIdx' = IF clIdx + 1 < SlotNum THEN clIdx + 1 ELSE 0
    /\ clPc' = IF clIdx + 1 < SlotNum THEN again ELSE after

\* LockFreeWindow, first loop: ts := slots[i].timestamp.Load();
\* if ts > 0 && ts < windowStart
LockFreeExpireLoad ==
    /\ cType = "lockfree"
    /\ clPc = "expire"
    /\ IF slotTimestamp[0][clIdx] > 0 /\ slotTimestamp[0][clIdx] < WindowStart(clNow)
         THEN /\ clPc' = "zero_timestamp"
              /\ UNCHANGED clIdx
         ELSE LoopNext("expire", "sum")
    /\ UNCHANGED <<clNow, clSum, slotTimestamp, slotCount, totalCount, cNow, wVars,
                   rdVars, cntHistVars>>
    /\ UNCHANGED tickPending
    /\ CounterFrame

\* LockFreeWindow: slots[i].timestamp.Store(0)
LockFreeZeroTimestamp ==
    /\ cType = "lockfree"
    /\ clPc = "zero_timestamp"
    /\ slotTimestamp' = [slotTimestamp EXCEPT ![0][clIdx] = 0]
    /\ clPc' = "zero_count"
    /\ UNCHANGED <<clNow, clIdx, clSum, slotCount, totalCount, cNow, wVars,
                   rdVars, cntHistVars>>
    /\ UNCHANGED tickPending
    /\ CounterFrame

\* LockFreeWindow: slots[i].count.Store(0)
LockFreeZeroCount ==
    /\ cType = "lockfree"
    /\ clPc = "zero_count"
    /\ slotCount' = [slotCount EXCEPT ![0][clIdx] = 0]
    /\ LoopNext("expire", "sum")
    /\ UNCHANGED <<clNow, clSum, slotTimestamp, totalCount, cNow, wVars,
                   rdVars, cntHistVars>>
    /\ UNCHANGED tickPending
    /\ CounterFrame

\* LockFreeWindow, second loop: if slots[i].timestamp.Load() >= windowStart
LockFreeSumTimestamp ==
    /\ cType = "lockfree"
    /\ clPc = "sum"
    /\ IF slotTimestamp[0][clIdx] >= WindowStart(clNow)
         THEN /\ clPc' = "sum_count"
              /\ UNCHANGED clIdx
         ELSE LoopNext("sum", "store_total")
    /\ UNCHANGED <<clNow, clSum, slotTimestamp, slotCount, totalCount, cNow, wVars,
                   rdVars, cntHistVars>>
    /\ UNCHANGED tickPending
    /\ CounterFrame

\* LockFreeWindow: newTotal += slots[i].count.Load()
LockFreeSumCount ==
    /\ cType = "lockfree"
    /\ clPc = "sum_count"
    /\ clSum' = clSum + slotCount[0][clIdx]
    /\ LoopNext("sum", "store_total")
    /\ UNCHANGED <<clNow, slotTimestamp, slotCount, totalCount, cNow, wVars,
                   rdVars, cntHistVars>>
    /\ UNCHANGED tickPending
    /\ CounterFrame

\* the slots of shard s that are still in the window, as a set of slot ids
KeptSlots(s) == {i \in SlotIds : slotTimestamp[s][i] >= WindowStart(clNow)}

\* the sum of counts[i] over the slot ids in a set
RECURSIVE SumOver(_, _)
SumOver(counts, ids) ==
    IF ids = {} THEN 0
    ELSE LET i == CHOOSE j \in ids : TRUE
         IN counts[i] + SumOver(counts, ids \ {i})

\* ShardedWindow: under shard.shardLock.Lock(), the slots in the window are
\* copied to a new array and counted into newTotal, the others are replaced
\* by empty slots, and shard.slots = newSlots
ShardedSwap ==
    /\ cType = "sharded"
    /\ clPc = "swap"
    /\ ~ReaderInShard(clIdx)
    /\ slotTimestamp' = [slotTimestamp EXCEPT ![clIdx] =
           [i \in SlotIds |-> IF i \in KeptSlots(clIdx) THEN slotTimestamp[clIdx][i] ELSE 0]]
    /\ slotCount' = [slotCount EXCEPT ![clIdx] =
           [i \in SlotIds |-> IF i \in KeptSlots(clIdx) THEN slotCount[clIdx][i] ELSE 0]]
    /\ clSum' = clSum + SumOver(slotCount[clIdx], KeptSlots(clIdx))
    /\ clIdx' = IF clIdx + 1 < NumShards THEN clIdx + 1 ELSE 0
    /\ clPc' = IF clIdx + 1 < NumShards THEN "swap" ELSE "store_total"
    /\ UNCHANGED <<clNow, totalCount, cNow, wVars, rdVars, cntHistVars>>
    /\ UNCHANGED tickPending
    /\ CounterFrame

\* totalCount.Store(newTotal); cleanupExpired returns
CleanupStoreTotal ==
    /\ clPc = "store_total"
    /\ totalCount' = clSum
    /\ clPc' = "idle"
    /\ clNow' = 0
    /\ clIdx' = 0
    /\ clSum' = 0
    /\ UNCHANGED <<slotTimestamp, slotCount, cNow, wVars,
                   rdVars, cntHistVars>>
    /\ UNCHANGED tickPending
    /\ CounterFrame

cleanupExpired ==
    \/ CleanupBegin
    \/ LockFreeExpireLoad
    \/ LockFreeZeroTimestamp
    \/ LockFreeZeroCount
    \/ LockFreeSumTimestamp
    \/ LockFreeSumCount
    \/ ShardedSwap
    \/ CleanupStoreTotal

(* ------------------------------- Stop ---------------------------------- *)

\* Stop: close(stopChan); closing a channel that is already closed panics
StopCall ==
    /\ IF cStopChanClosed
         THEN /\ cPanicked' = TRUE
              /\ UNCHANGED cStopChanClosed
         ELSE /\ cStopChanClosed' = TRUE
              /\ UNCHANGED cPanicked
    /\ UNCHANGED <<slotTimestamp, slotCount, totalCount, cNow, wVars, clVars, rdVars,
                   cntHistVars, twVars>>

Stop == StopCall /\ OutsideCounter

\* cleanupWorker: case <-stopChan: return (with the deferred ticker.Stop())
cleanupWorkerReturn ==
    /\ clPc = "idle"
    /\ cStopChanClosed
    /\ clPc' = "returned"
    /\ tickPending' = FALSE
    /\ UNCHANGED <<clNow, clIdx, clSum, slotTimestamp, slotCount, totalCount, cNow,
                   wVars, rdVars, cntHistVars>>
    /\ CounterFrame

(* ================ Part 4: QPSHandler.Collect =========================== *)

\* the bodies sent: one that ShouldBindJSON rejects, and {"count": n}
Bodies == {[ok |-> FALSE, count |-> 0]} \cup {[ok |-> TRUE, count |-> n] : n \in (-1)..MaxCount}

\* NewHandler: no request is being served
NewHandler ==
    /\ hPc = [r \in Reqs |-> "idle"]
    /\ hBody = [r \in Reqs |-> [ok |-> FALSE, count |-> 0]]
    /\ hI = [r \in Reqs |-> 0]
    /\ hResponse = [r \in Reqs |-> 0]
    /\ hServed = [r \in Reqs |-> 0]
    /\ hBefore = [r \in Reqs |-> <<0, 0, 0>>]

\* what a step of Collect leaves alone in the lifecycle coordinator and outside it
CollectFrameShutdown ==
    /\ UNCHANGED <<shutdownStarted, forceShutdown, shutdownStatus,
                   stopChanClosed, doneChanClosed, done, waiterPc>>
    /\ UNCHANGED <<sdVars, cfgVars, timeVars, reqVars, activeRequests, wgCount>>
    /\ UNCHANGED sideVars

\* Collect is called with a body: handler.gracefulShutdown.StartRequest()
CollectCall(r) ==
    /\ hPc[r] = "idle"
    /\ hServed[r] < MaxCollects
    /\ \E body \in Bodies : hBody' = [hBody EXCEPT ![r] = body]
    /\ hPc' = [hPc EXCEPT ![r] = "start_request"]
    /\ hI' = [hI EXCEPT ![r] = 0]
    /\ hResponse' = [hResponse EXCEPT ![r] = 0]
    /\ hServed' = [hServed EXCEPT ![r] = @ + 1]
    /\ hBefore' = [hBefore EXCEPT ![r] = <<rlTokens, rlTotalCount, wCalls[r]>>]
    /\ StartRequestEnter(r)
    /\ UNCHANGED <<rlVars, rlHistVars, cntVars, sideVars>>

\* StartRequest returned false: c.JSON(http.StatusServiceUnavailable, ...); return
CollectUnavailable(r) ==
    /\ hPc[r] = "start_request"
    /\ reqPc[r] = "idle"
    /\ hResponse' = [hResponse EXCEPT ![r] = 503]
    /\ hPc' = [hPc EXCEPT ![r] = "idle"]
    /\ UNCHANGED <<hBody, hI, hServed, hBefore>>
    /\ CollectFrameShutdown
    /\ UNCHANGED <<rlVars, rlHistVars, cntVars>>

\* a return that runs no deferred call
ReturnsAtOnce == "idle"

\* defer handler.gracefulShutdown.EndRequest(): where a return after it goes
DeferredEndRequest == "end_request"

\* StartRequest returned true (EndRequest is deferred):
\* if !handler.rateLimiter.Allow() { c.JSON(http.StatusTooManyRequests, ...); return }
CollectAllow(r) ==
    /\ hPc[r] = "start_request"
    /\ reqPc[r] = "in_flight"
    /\ AllowDisabledCall \/ AllowEnabledCall(NumReqs * MaxCollects)
    /\ hPc' = [hPc EXCEPT ![r] = IF rlResult' THEN "bind" ELSE DeferredEndRequest]
    /\ hResponse' = [hResponse EXCEPT ![r] = IF rlResult' THEN 0 ELSE 429]
    /\ UNCHANGED <<hBody, hI, hServed, hBefore>>
    /\ CollectFrameShutdown
    /\ UNCHANGED cntVars

\* if err := c.ShouldBindJSON(&req); err != nil { c.JSON(http.StatusBadRequest, ...); return }
CollectBind(r) ==
    /\ hPc[r] = "bind"
    /\ hPc' = [hPc EXCEPT ![r] = IF hBody[r].ok THEN "loop" ELSE DeferredEndRequest]
    /\ hResponse' = [hResponse EXCEPT ![r] = IF hBody[r].ok THEN 0 ELSE 400]
    /\ UNCHANGED <<hBody, hI, hServed, hBefore>>
    /\ CollectFrameShutdown
    /\ UNCHANGED <<rlVars, rlHistVars, cntVars>>

\* a loop that calls Incr once more than asked
LoopGoesOnOnceMore(i, count) == i < count + 1

\* for i := int64(0); i < req.Count; i++
LoopGoesOn(i, count) == i < count

\* the loop body: handler.counter.Incr() is called (and i++ once it returns)
CollectIncr(r) ==
    /\ hPc[r] = "loop"
    /\ LoopGoesOn(hI[r], hBody[r].count)
    /\ IncrCall(r, MaxCollects * MaxCount)
    /\ hI' = [hI EXCEPT ![r] = @ + 1]
    /\ UNCHANGED <<hPc, hBody, hResponse, hServed, hBefore>>
    /\ UNCHANGED <<stopVars, twVars, cType>>
    /\ UNCHANGED <<gsVars, histVars, rlVars, rlHistVars, sideVars>>

\* the loop is over: c.Status(http.StatusAccepted)
CollectAccepted(r) ==
    /\ hPc[r] = "loop"
    /\ wPc[r] = "idle"
    /\ ~LoopGoesOn(hI[r], hBody[r].count)
    /\ hResponse' = [hResponse EXCEPT ![r] = 202]
    /\ hPc' = [hPc EXCEPT ![r] = DeferredEndRequest]
    /\ UNCHANGED <<hBody, hI, hServed, hBefore>>
    /\ CollectFrameShutdown
    /\ UNCHANGED <<rlVars, rlHistVars, cntVars>>

\* the deferred handler.gracefulShutdown.EndRequest() runs
CollectEndRequest(r) ==
    /\ hPc[r] = "end_request"
    /\ EndRequest(r)

\* Collect returns
CollectReturn(r) ==
    /\ hPc[r] = "end_request"
    /\ reqPc[r] = "idle"
    /\ hPc' = [hPc EXCEPT ![r] = "idle"]
    /\ UNCHANGED <<hBody, hI, hResponse, hServed, hBefore>>
    /\ CollectFrameShutdown
    /\ UNCHANGED <<rlVars, rlHistVars, cntVars>>

\* the steps of StartRequest and of Incr run inside Collect
Collect(r) ==
    \/ CollectCall(r)
    \/ StartRequestCheck(r)
    \/ StartRequestAddActive(r)
    \/ StartRequestAddWg(r)
    \/ StartRequestRecheck(r)
    \/ StartRequestUndoActive(r)
    \/ StartRequestUndoWg(r)
    \/ CollectUnavailable(r)
    \/ CollectAllow(r)
    \/ CollectBind(r)
    \/ CollectIncr(r)
    \/ LockFreeLoad(r)
    \/ LockFreeAdd(r)
    \/ LockFreeCAS(r)
    \/ LockFreeStore(r)
    \/ LockFreeTotal(r)
    \/ ShardedIncr(r)
    \/ CollectAccepted(r)
    \/ CollectEndRequest(r)
    \/ CollectReturn(r)

(* ------------------- the calls run one at a time ----------------------- *)

\* the other variant
OtherType == IF cType = "sharded" THEN "lockfree" ELSE "sharded"

\* LockFreeWindow.Incr run alone at the instant now: the same bucket adds one;
\* an empty or stale slot gets the timestamp now and the count 1; on any
\* other timestamp the loop never ends and nothing is written
IncrAloneLockFree(ts, cnt, now) ==
    LET i == SlotOf(now)
        stored == ts[0][i]
    IN IF Bucket(stored) = Bucket(now)
         THEN <<ts, [cnt EXCEPT ![0][i] = @ + 1]>>
         ELSE IF stored = 0 \/ stored < now - Precision
                THEN <<[ts EXCEPT ![0][i] = now], [cnt EXCEPT ![0][i] = 1]>>
                ELSE <<ts, cnt>>

\* ShardedWindow.Incr run alone at the instant now
IncrAloneSharded(ts, cnt, now) ==
    LET s == Bucket(now) % NumShards
        i == SlotOf(now)
    IN << IF ts[s][i] < SlotTime(now) THEN [ts EXCEPT ![s][i] = SlotTime(now)] ELSE ts,
          [cnt EXCEPT ![s][i] = @ + 1] >>

IncrAlone(type, ts, cnt, now) ==
    IF type = "sharded" THEN IncrAloneSharded(ts, cnt, now)
    ELSE IncrAloneLockFree(ts, cnt, now)

\* the rows a variant uses: the ring, or every shard
RowsOf(type) == IF type = "sharded" THEN Shards ELSE {0}

\* the sum of counts[s][i] over a set of <<s, i>> pairs
RECURSIVE SumPairs(_, _)
SumPairs(counts, pairs) ==
    IF pairs = {} THEN 0
    ELSE LET q == CHOOSE r \in pairs : TRUE
         IN counts[q[1]][q[2]] + SumPairs(counts, pairs \ {q})

\* CurrentQPS run alone at the instant now (the same in both variants)
CurrentQPSAlone(type, ts, cnt, now) ==
    ToQPS(SumPairs(cnt, {q \in RowsOf(type) \X SlotIds : ts[q[1]][q[2]] >= WindowStart(now)}))

\* cleanupExpired run alone at the instant now: LockFreeWindow zeroes the slots
\* with 0 < timestamp < windowStart, ShardedWindow keeps the slots with
\* timestamp >= windowStart and empties the others
Expired(type, t, now) ==
    IF type = "sharded" THEN ~(t >= WindowStart(now))
    ELSE t > 0 /\ t < WindowStart(now)

CleanupAlone(type, ts, cnt, now) ==
    << [s \in Shards |-> [i \in SlotIds |->
           IF s \in RowsOf(type) /\ Expired(type, ts[s][i], now) THEN 0 ELSE ts[s][i]]],
       [s \in Shards |-> [i \in SlotIds |->
           IF s \in RowsOf(type) /\ Expired(type, ts[s][i], now) THEN 0 ELSE cnt[s][i]]] >>

\* no call is in progress (and no panic has ended the process)
WorkersIdle == ~cPanicked /\ \A g \in Workers : wPc[g] = "idle"
ReaderIdle == rdPc \in {"idle", "done"}
CleanerIdle == clPc \in {"idle", "returned"}

\* a call of Incr begins when nothing else runs; the counter of the other
\* variant gets the same call at the same instant
IncrBeginSequential(g) ==
    /\ WorkersIdle /\ ReaderIdle /\ CleanerIdle
    /\ IncrCall(g, MaxIncrs)
    /\ LET after == IncrAlone(OtherType, twTimestamp, twCount, cNow)
       IN /\ twTimestamp' = after[1]
          /\ twCount' = after[2]
    /\ UNCHANGED <<twQps, stopVars>>
    /\ OutsideCounter

ReadBeginSequential ==
    /\ WorkersIdle /\ CleanerIdle
    /\ CurrentQPSCall
    /\ twQps' = CurrentQPSAlone(OtherType, twTimestamp, twCount, cNow)
    /\ UNCHANGED <<twTimestamp, twCount, stopVars>>
    /\ OutsideCounter

\* the cleaners of both counters run on the same ticks
CleanupBeginSequential ==
    /\ WorkersIdle /\ ReaderIdle
    /\ cleanupExpiredCall
    /\ LET after == CleanupAlone(OtherType, twTimestamp, twCount, cNow)
       IN /\ twTimestamp' = after[1]
          /\ twCount' = after[2]
    /\ UNCHANGED <<twQps, stopVars>>
    /\ OutsideCounter

\* Stop is called between the other calls, any number of times
StopSequential == WorkersIdle /\ ReaderIdle /\ CleanerIdle /\ Stop

cleanupWorkerReturnSequential == WorkersIdle /\ ReaderIdle /\ cleanupWorkerReturn

\* time passes between the calls
TickSequential(limit) ==
    /\ WorkersIdle /\ ReaderIdle /\ CleanerIdle
    /\ CounterTick(limit)

(* ====== Part 5: AdaptiveShardingManager, EnhancedAdaptiveShardingManager ===== *)

\* NewAdaptiveShardingManager: minShards = 4 and maxShards = 64 for arguments <= 0
DefaultMinShards == 4
DefaultMaxShards == 64
\* NewEnhancedAdaptiveShardingManager: memoryThreshold = 1 << 30 for the argument 0
\* (1 in units of 2^30 bytes)
DefaultMemoryThreshold == 1

\* what the mocked counter.CurrentQPS() returns to adjustShards: from 10, the
\* value 13 is a change of exactly +30%, 14 of more; 7 is exactly -30%, 0 is -100%
QpsValues == {0, 7, 10, 13, 14}

\* the history of adjustShards before its first run
NoTickYet ==
    /\ tkRan = FALSE
    /\ tkShards = 0
    /\ tkLastQPS = 0
    /\ tkMemory = 0
    /\ tkThreshold = 0

\* a weight qpsWeight / total as the fraction <<numerator, denominator>>
Fraction(n, d) == <<n, d>>

\* memoryWeight: 0.4, qpsWeight: 0.6; no SetWeights call is in progress
DefaultWeights ==
    [qps |-> Fraction(6, 10), memory |-> Fraction(4, 10), pending |-> <<>>]

\* the manager has the weights of its construction and no second manager is followed
WeightsAtRest ==
    /\ weights = DefaultWeights
    /\ twinWeights = DefaultWeights
    /\ twinShards = currentShards

\* NewAdaptiveShardingManager(counter, cfg, min, max)
NewAdaptiveShardingManager(min, max) ==
    /\ asmKind = "basic"
    /\ minShards = (IF min <= 0 THEN DefaultMinShards ELSE min)
    /\ maxShards = (IF max <= 0 THEN DefaultMaxShards ELSE max)
    /\ currentShards = minShards
    /\ lastQPS = 0
    /\ memoryThreshold = 0
    /\ NoTickYet
    /\ WeightsAtRest

\* NewEnhancedAdaptiveShardingManager(counter, cfg, min, max, threshold, adjustInterval)
\* without its weights
EnhancedManagerFields(min, max, threshold) ==
    /\ asmKind = "enhanced"
    /\ minShards = (IF min <= 0 THEN NumCPU ELSE min)
    /\ maxShards = (IF max <= 0 THEN NumCPU * 8 ELSE max)
    /\ currentShards = minShards
    /\ lastQPS = 0
    /\ memoryThreshold = (IF threshold = 0 THEN DefaultMemoryThreshold ELSE threshold)
    /\ NoTickYet

NewEnhancedAdaptiveShardingManager(min, max, threshold) ==
    /\ EnhancedManagerFields(min, max, threshold)
    /\ WeightsAtRest

\* qpsChangeRate > 0.3, with qpsChangeRate = float64(currentQPS-lastQPS) / float64(lastQPS)
\* for lastQPS > 0 and 0 otherwise
QpsGrew(currentQPS, last) == last > 0 /\ 10 * (currentQPS - last) > 3 * last

\* qpsChangeRate < -0.3
QpsFell(currentQPS, last) == last > 0 /\ 10 * (currentQPS - last) < -(3 * last)

\* int32(float64(currentShards) * 0.5)
Half(shards) == shards \div 2

\* int32(float64(currentShards) * 0.3)
ThreeTenths(shards) == (3 * shards) \div 10

\* a shard count that is not capped
CapAtMaxNot(newShards, max) == newShards

\* if newShards > int32(asm.maxShards) { newShards = int32(asm.maxShards) }
CapAtMax(newShards, max) == IF newShards > max THEN max ELSE newShards

\* if newShards < int32(asm.minShards) { newShards = int32(asm.minShards) }
FloorAtMin(newShards, min) == IF newShards < min THEN min ELSE newShards

\* AdaptiveShardingManager.adjustShards: the shard count it leaves
AdaptiveNewShards(shards, currentQPS, last) ==
    IF QpsGrew(currentQPS, last) /\ shards < maxShards
    THEN CapAtMax(shards + Half(shards), maxShards)
    ELSE IF QpsFell(currentQPS, last) /\ shards > minShards
         THEN FloorAtMin(shards - ThreeTenths(shards), minShards)
         ELSE shards

\* EnhancedAdaptiveShardingManager.adjustShards: the shard count it leaves
EnhancedNewShards(shards, currentQPS, last, memoryUsage) ==
    IF memoryUsage > memoryThreshold /\ shards > minShards
    THEN minShards
    ELSE IF QpsGrew(currentQPS, last) /\ shards < maxShards
         THEN CapAtMax(shards + Half(shards), maxShards)
         ELSE IF QpsFell(currentQPS, last) /\ shards > minShards
              THEN FloorAtMin(shards - Half(shards), minShards)
              ELSE shards

\* the sum and the product of two fractions
FractionAdd(a, b) == Fraction(a[1] * b[2] + b[1] * a[2], a[2] * b[2])
FractionMul(a, b) == Fraction(a[1] * b[1], a[2] * b[2])

\* totalScore := qpsChangeRate*asm.qpsWeight + (1-memoryUsageRate)*asm.memoryWeight,
\* with memoryUsageRate = memoryUsage / memoryThreshold
TotalScore(currentQPS, last, memoryUsage, w) ==
    LET qpsChangeRate == IF last > 0 THEN Fraction(currentQPS - last, last)
                         ELSE Fraction(0, 1)
        memoryFree == Fraction(memoryThreshold - memoryUsage, memoryThreshold)
    IN FractionAdd(FractionMul(qpsChangeRate, w.qps), FractionMul(memoryFree, w.memory))

\* a manager whose scale-up test reads the score: totalScore > 0.3
ScoreDecision(shards, currentQPS, last, memoryUsage, w) ==
    LET totalScore == TotalScore(currentQPS, last, memoryUsage, w)
    IN IF 10 * totalScore[1] > 3 * totalScore[2] /\ shards < maxShards
       THEN CapAtMax(shards + Half(shards), maxShards)
       ELSE shards

\* EnhancedAdaptiveShardingManager.adjustShards with the weights w: totalScore is
\* computed and passed to the logger, the shard count is decided without it
EnhancedDecision(shards, currentQPS, last, memoryUsage, w) ==
    LET totalScore == TotalScore(currentQPS, last, memoryUsage, w)
    IN EnhancedNewShards(shards, currentQPS, last, memoryUsage)

\* what the sharding managers leave alone
ShardingFrame ==
    UNCHANGED <<gsVars, histVars, rlVars, rlHistVars, cntVars, hVars, mainVars, strayVars,
                lkVars>>

\* a tick of AdaptiveShardingManager.adaptiveWorker: adjustShards()
AdaptiveAdjustShards ==
    /\ asmKind = "basic"
    /\ \E currentQPS \in QpsValues :
         /\ lastQPS' = currentQPS
         /\ currentShards' = AdaptiveNewShards(currentShards, currentQPS, lastQPS)
    /\ tkRan' = TRUE
    /\ tkShards' = currentShards
    /\ tkLastQPS' = lastQPS
    /\ UNCHANGED <<tkMemory, tkThreshold>>
    /\ UNCHANGED <<asmKind, minShards, maxShards, memoryThreshold>>
    /\ twinShards' = currentShards'
    /\ UNCHANGED <<weights, twinWeights>>
    /\ ShardingFrame

\* a tick of EnhancedAdaptiveShardingManager.adaptiveWorker: adjustShards(); the
\* worker is the only caller, so TryLock succeeds.  The second manager, whose
\* counter and memory are the same, runs its adjustShards on the same readings.
EnhancedAdjustShards ==
    /\ asmKind = "enhanced"
    /\ \E currentQPS \in QpsValues, memoryUsage \in 0..MaxMemory :
         /\ lastQPS' = currentQPS
         /\ currentShards' =
               EnhancedDecision(currentShards, currentQPS, lastQPS, memoryUsage, weights)
         /\ twinShards' =
               EnhancedDecision(twinShards, currentQPS, lastQPS, memoryUsage, twinWeights)
         /\ tkMemory' = memoryUsage
    /\ tkRan' = TRUE
    /\ tkShards' = currentShards
    /\ tkLastQPS' = lastQPS
    /\ tkThreshold' = memoryThreshold
    /\ UNCHANGED <<asmKind, minShards, maxShards, memoryThreshold>>
    /\ UNCHANGED <<weights, twinWeights>>
    /\ ShardingFrame

\* SetMemoryThreshold(threshold)
SetMemoryThreshold(threshold) ==
    /\ asmKind = "enhanced"
    /\ memoryThreshold' = (IF threshold > 0 THEN threshold ELSE memoryThreshold)
    /\ UNCHANGED <<asmKind, minShards, maxShards, currentShards, lastQPS>>
    /\ UNCHANGED <<tkVars, wtVars>>
    /\ ShardingFrame

\* if qpsWeight >= 0 && memoryWeight >= 0 && qpsWeight+memoryWeight > 0
WeightsAccepted(qpsWeight, memoryWeight) ==
    qpsWeight >= 0 /\ memoryWeight >= 0 /\ qpsWeight + memoryWeight > 0

\* the arguments of a SetWeights call
WeightArgs == (-1)..MaxWeightArg

\* SetWeights(qpsWeight, memoryWeight), first store: asm.qpsWeight = qpsWeight / total.
\* The fields are written without a lock, so a tick can run between the two stores.
SetWeightsQps(qpsWeight, memoryWeight) ==
    /\ asmKind = "enhanced"
    /\ weights.pending = <<>>
    /\ WeightsAccepted(qpsWeight, memoryWeight)
    /\ weights' = [weights EXCEPT
                      !.qps = Fraction(qpsWeight, qpsWeight + memoryWeight),
                      !.pending = Fraction(memoryWeight, qpsWeight + memoryWeight)]
    /\ UNCHANGED <<asmVars, tkVars, twinShards, twinWeights>>
    /\ ShardingFrame

\* SetWeights, second store: asm.memoryWeight = memoryWeight / total
SetWeightsMemory ==
    /\ asmKind = "enhanced"
    /\ weights.pending # <<>>
    /\ weights' = [weights EXCEPT !.memory = weights.pending, !.pending = <<>>]
    /\ UNCHANGED <<asmVars, tkVars, twinShards, twinWeights>>
    /\ ShardingFrame

\* SetWeights with arguments that its test rejects: nothing is stored
SetWeightsRejected(qpsWeight, memoryWeight) ==
    /\ asmKind = "enhanced"
    /\ weights.pending = <<>>
    /\ ~WeightsAccepted(qpsWeight, memoryWeight)
    /\ UNCHANGED <<asmVars, tkVars, wtVars>>
    /\ ShardingFrame

(* ================== Part 6: config.Load and main ======================= *)

\* if cfg.Server.Port <= 0 || cfg.Server.Port > 65535
MaxPort == 65535

\* the ports read from the configuration
Ports == {0, 8080, MaxPort + 1}

\* the configurations that v.Unmarshal can produce
AppConfigs ==
    [windowSize : 0..MaxCfgArg, slotNum : 0..MaxCfgArg, precision : 0..MaxCfgArg,
     port : Ports,
     limiterEnabled : BOOLEAN, rate : 0..1, burst : 0..1,
     metricsEnabled : BOOLEAN, interval : 0..1,
     timeout : 0..1, maxWait : 0..1]

\* validateConfig(cfg): the error returned, "nil" for none
validateConfig(cfg) ==
    IF cfg.windowSize <= 0 THEN "invalid counter config window_size"
    ELSE IF cfg.slotNum <= 0 THEN "invalid counter config slot_num"
    ELSE IF cfg.precision <= 0 THEN "invalid counter config precision"
    ELSE IF cfg.port <= 0 \/ cfg.port > MaxPort THEN "invalid server port"
    ELSE IF cfg.limiterEnabled /\ cfg.rate <= 0 THEN "invalid limiter rate"
    ELSE IF cfg.limiterEnabled /\ cfg.burst <= 0 THEN "invalid limiter burst"
    ELSE IF cfg.metricsEnabled /\ cfg.interval <= 0 THEN "invalid metrics interval"
    ELSE IF cfg.timeout <= 0 THEN "invalid shutdown timeout"
    ELSE IF cfg.maxWait <= 0 THEN "invalid shutdown max wait"
    ELSE "nil"

\* main has not run
MainAtRest ==
    /\ appConfig = [windowSize |-> 1, slotNum |-> 1, precision |-> 1, port |-> 8080,
                    limiterEnabled |-> FALSE, rate |-> 1, burst |-> 1,
                    metricsEnabled |-> FALSE, interval |-> 1,
                    timeout |-> 1, maxWait |-> 1]
    /\ loadErr = "unloaded"
    /\ mainPc = "rest"
    /\ stopLog = <<>>

\* main starts with some configuration file and environment
MainStart ==
    /\ appConfig \in AppConfigs
    /\ loadErr = "unloaded"
    /\ mainPc = "load"
    /\ stopLog = <<>>

\* what a step of main leaves alone
MainFrame ==
    UNCHANGED <<gsVars, histVars, rlVars, rlHistVars, cntVars, hVars, asmVars, tkVars,
                strayVars, wtVars, lkVars>>

\* cfg, err := config.Load(""); if err != nil { log.Fatal(...) }: Load returns
\* what validateConfig returns, and log.Fatal exits without running any defer
MainLoad ==
    /\ mainPc = "load"
    /\ loadErr' = validateConfig(appConfig)
    /\ mainPc' = (IF loadErr' = "nil" THEN "construct" ELSE "exited")
    /\ UNCHANGED <<appConfig, stopLog>>
    /\ MainFrame

\* NewEnhancedGracefulShutdown, NewCounter(&cfg.Counter), NewAdaptiveShardingManager,
\* NewRateLimiter, NewMetrics (Start when cfg.Metrics.Enabled), the server is
\* started; the Stop calls are deferred
MainConstruct ==
    /\ mainPc = "construct"
    /\ mainPc' = "serving"
    /\ UNCHANGED <<appConfig, loadErr, stopLog>>
    /\ MainFrame

\* <-quit: SIGINT or SIGTERM arrives
MainQuit ==
    /\ mainPc = "serving"
    /\ mainPc' = "shutdown"
    /\ UNCHANGED <<appConfig, loadErr, stopLog>>
    /\ MainFrame

\* gracefulShutdown.Shutdown(ctx) runs, ctx having the deadline cfg.Shutdown.Timeout
MainShutdown ==
    /\ mainPc = "shutdown"
    /\ \/ Shutdown(1)
       \/ WaiterWait
       \/ CtxCancel
       \/ Tick

\* gracefulShutdown.Shutdown(ctx) has returned
MainShutdownReturned ==
    /\ mainPc = "shutdown"
    /\ sdPc[1] = "returned"
    /\ stopLog' = Append(stopLog, "lifecycle")
    /\ mainPc' = "srv_shutdown"
    /\ UNCHANGED <<appConfig, loadErr>>
    /\ MainFrame

\* srv.Shutdown(ctx)
MainServerShutdown ==
    /\ mainPc = "srv_shutdown"
    /\ stopLog' = Append(stopLog, "server")
    /\ mainPc' = "defer_cancel"
    /\ UNCHANGED <<appConfig, loadErr>>
    /\ MainFrame

\* main returns and its deferred calls run, the last deferred first: cancel()
MainDeferCancel ==
    /\ mainPc = "defer_cancel"
    /\ mainPc' = "defer_metrics"
    /\ UNCHANGED <<appConfig, loadErr, stopLog>>
    /\ MainFrame

\* metricsCollector.Stop(), deferred only if cfg.Metrics.Enabled
MainDeferMetricsStop ==
    /\ mainPc = "defer_metrics"
    /\ stopLog' = (IF appConfig.metricsEnabled THEN Append(stopLog, "metrics") ELSE stopLog)
    /\ mainPc' = "defer_adaptive"
    /\ UNCHANGED <<appConfig, loadErr>>
    /\ MainFrame

\* adaptiveManager.Stop()
MainDeferAdaptiveStop ==
    /\ mainPc = "defer_adaptive"
    /\ stopLog' = Append(stopLog, "adaptive")
    /\ mainPc' = "defer_counter"
    /\ UNCHANGED <<appConfig, loadErr>>
    /\ MainFrame

\* qpsCounter.Stop()
MainDeferCounterStop ==
    /\ mainPc = "defer_counter"
    /\ StopCall
    /\ stopLog' = Append(stopLog, "counter")
    /\ mainPc' = "defer_logger"
    /\ UNCHANGED <<appConfig, loadErr>>
    /\ UNCHANGED <<gsVars, histVars, rlVars, rlHistVars, hVars, asmVars, tkVars, cType>>
    /\ UNCHANGED <<strayVars, wtVars, lkVars>>

\* logger.Sync(), and main is over
MainDeferLoggerSync ==
    /\ mainPc = "defer_logger"
    /\ mainPc' = "returned"
    /\ UNCHANGED <<appConfig, loadErr, stopLog>>
    /\ MainFrame

(* ============== Part 7: the locks of ShardedWindow ====================== *)

LockThreads == 1..NumLockThreads

\* a sync.RWMutex: the goroutines that hold it for reading, the one that holds
\* it for writing, and those that have called Lock() and wait
FreeRWMutex == [readers |-> {}, writer |-> {}, pending |-> {}]

\* RLock() returns at once: no writer holds the lock and none is pending
CanRLock(m) == m.writer = {} /\ m.pending = {}

\* a pending Lock() returns: the readers and the writer have left
CanLock(m) == m.writer = {} /\ m.readers = {}

\* a mutex that the goroutine t never gives back
ReleasedNot(m, t) == m

\* RUnlock() or Unlock() by the goroutine t
Released(m, t) == [m EXCEPT !.readers = @ \ {t}, !.writer = @ \ {t}]

\* the goroutine takes no part
IdleThread == [call |-> "none", pc |-> "idle", shard |-> 0, slot |-> 0]

\* the calls that take the write lock of the shard
WritesShard(call) == call = "cleanupExpired"

\* the calls that take the read lock of the slot
ReadsSlot(call) == call = "CurrentQPS"

\* no call is running and every lock is free
LocksAtRest ==
    /\ shardLock = [s \in Shards |-> FreeRWMutex]
    /\ slotMutex = [s \in Shards |-> [i \in SlotIds |-> FreeRWMutex]]
    /\ lkThread = [t \in LockThreads |-> IdleThread]
    /\ lkCalls = [t \in LockThreads |-> 0]

\* what a step of the lock protocol leaves alone
LocksFrame ==
    UNCHANGED <<gsVars, histVars, rlVars, rlHistVars, cntVars, hVars, asmVars, tkVars,
                mainVars, strayVars, wtVars>>

\* the goroutine of cleanupWorker, the only caller of cleanupExpired
CleanerThread == 1

\* Incr is called: shardID and slotID come from the time of the call
LockIncrBegin(t) ==
    /\ t # CleanerThread
    /\ lkThread[t].pc = "idle"
    /\ lkCalls[t] < MaxLockCalls
    /\ \E s \in Shards, i \in SlotIds :
          lkThread' = [lkThread EXCEPT ![t] =
                          [call |-> "Incr", pc |-> "shard", shard |-> s, slot |-> i]]
    /\ lkCalls' = [lkCalls EXCEPT ![t] = @ + 1]
    /\ UNCHANGED <<shardLock, slotMutex>>
    /\ LocksFrame

\* CurrentQPS is called, or the ticker fires and cleanupWorker calls
\* cleanupExpired: both begin at shard 0
LockScanBegin(t) ==
    /\ lkThread[t].pc = "idle"
    /\ lkCalls[t] < MaxLockCalls
    /\ lkThread' = [lkThread EXCEPT ![t] =
           [call |-> IF t = CleanerThread THEN "cleanupExpired" ELSE "CurrentQPS",
            pc |-> "shard", shard |-> 0, slot |-> 0]]
    /\ lkCalls' = [lkCalls EXCEPT ![t] = @ + 1]
    /\ UNCHANGED <<shardLock, slotMutex>>
    /\ LocksFrame

\* s.shardLock.RLock() returns (Incr, CurrentQPS)
ShardRLock(t) ==
    /\ lkThread[t].pc = "shard"
    /\ ~WritesShard(lkThread[t].call)
    /\ CanRLock(shardLock[lkThread[t].shard])
    /\ shardLock' = [shardLock EXCEPT ![lkThread[t].shard].readers = @ \cup {t}]
    /\ lkThread' = [lkThread EXCEPT ![t].pc = "slot"]
    /\ UNCHANGED <<slotMutex, lkCalls>>
    /\ LocksFrame

\* shard.shardLock.Lock() is called (cleanupExpired): new readers are held back
ShardLockCalled(t) ==
    /\ lkThread[t].pc = "shard"
    /\ WritesShard(lkThread[t].call)
    /\ shardLock' = [shardLock EXCEPT ![lkThread[t].shard].pending = @ \cup {t}]
    /\ lkThread' = [lkThread EXCEPT ![t].pc = "shard_pending"]
    /\ UNCHANGED <<slotMutex, lkCalls>>
    /\ LocksFrame

\* shard.shardLock.Lock() returns
ShardLockReturns(t) ==
    /\ lkThread[t].pc = "shard_pending"
    /\ CanLock(shardLock[lkThread[t].shard])
    /\ shardLock' = [shardLock EXCEPT ![lkThread[t].shard].pending = @ \ {t},
                                      ![lkThread[t].shard].writer = {t}]
    /\ lkThread' = [lkThread EXCEPT ![t].pc = "slot"]
    /\ UNCHANGED <<slotMutex, lkCalls>>
    /\ LocksFrame

\* shard.slotMutex[slotID].RLock() returns (CurrentQPS), the shard lock being held
SlotRLock(t) ==
    /\ lkThread[t].pc = "slot"
    /\ ReadsSlot(lkThread[t].call)
    /\ CanRLock(slotMutex[lkThread[t].shard][lkThread[t].slot])
    /\ slotMutex' = [slotMutex EXCEPT
                        ![lkThread[t].shard][lkThread[t].slot].readers = @ \cup {t}]
    /\ lkThread' = [lkThread EXCEPT ![t].pc = "in_slot"]
    /\ UNCHANGED <<shardLock, lkCalls>>
    /\ LocksFrame

\* s.slotMutex[slotID].Lock() is called (Incr, cleanupExpired), the shard lock
\* being held
SlotLockCalled(t) ==
    /\ lkThread[t].pc = "slot"
    /\ ~ReadsSlot(lkThread[t].call)
    /\ slotMutex' = [slotMutex EXCEPT
                        ![lkThread[t].shard][lkThread[t].slot].pending = @ \cup {t}]
    /\ lkThread' = [lkThread EXCEPT ![t].pc = "slot_pending"]
    /\ UNCHANGED <<shardLock, lkCalls>>
    /\ LocksFrame

\* s.slotMutex[slotID].Lock() returns
SlotLockReturns(t) ==
    /\ lkThread[t].pc = "slot_pending"
    /\ CanLock(slotMutex[lkThread[t].shard][lkThread[t].slot])
    /\ slotMutex' = [slotMutex EXCEPT
                        ![lkThread[t].shard][lkThread[t].slot].pending = @ \ {t},
                        ![lkThread[t].shard][lkThread[t].slot].writer = {t}]
    /\ lkThread' = [lkThread EXCEPT ![t].pc = "in_slot"]
    /\ UNCHANGED <<shardLock, lkCalls>>
    /\ LocksFrame

\* the slot is read or written and its lock is given back; CurrentQPS and
\* cleanupExpired go on to the next slot of the shard, Incr is over
SlotUnlock(t) ==
    /\ lkThread[t].pc = "in_slot"
    /\ slotMutex' = [slotMutex EXCEPT ![lkThread[t].shard][lkThread[t].slot] =
                        Released(@, t)]
    /\ lkThread' = [lkThread EXCEPT ![t] =
           IF @.call # "Incr" /\ @.slot + 1 < SlotNum
           THEN [@ EXCEPT !.pc = "slot", !.slot = @ + 1]
           ELSE [@ EXCEPT !.pc = "leave"]]
    /\ UNCHANGED <<shardLock, lkCalls>>
    /\ LocksFrame

\* the shard lock is given back; CurrentQPS and cleanupExpired go on to the next
\* shard, and the call returns after the last
ShardUnlock(t) ==
    /\ lkThread[t].pc = "leave"
    /\ shardLock' = [shardLock EXCEPT ![lkThread[t].shard] = Released(@, t)]
    /\ lkThread' = [lkThread EXCEPT ![t] =
           IF @.call # "Incr" /\ @.shard + 1 < NumShards
           THEN [@ EXCEPT !.pc = "shard", !.shard = @ + 1, !.slot = 0]
           ELSE IdleThread]
    /\ UNCHANGED <<slotMutex, lkCalls>>
    /\ LocksFrame

\* a step of a call that has begun
LockStep(t) ==
    \/ ShardRLock(t)
    \/ ShardLockCalled(t)
    \/ ShardLockReturns(t)
    \/ SlotRLock(t)
    \/ SlotLockCalled(t)
    \/ SlotLockReturns(t)
    \/ SlotUnlock(t)
    \/ ShardUnlock(t)

(* --------------------------- specifications ---------------------------- *)

\* the limiter while another component is followed
LimiterAtRest == NewRateLimiter(1, 1)

\* the sharding manager while another component is followed
ShardingAtRest == NewAdaptiveShardingManager(1, 1)

\* the lifecycle coordinator while another component is followed
ShutdownAtRest ==
    /\ NewEnhancedGracefulShutdown(1, 0)
    /\ InitShutdownRest

\* the counter while another component is followed
CounterAtRest == NewCounter("lockfree")

Init ==
    /\ \E timeout \in 1..MaxTimeoutArg, maxWait \in 0..MaxWaitArg :
          NewEnhancedGracefulShutdown(timeout, maxWait)
    /\ InitShutdownRest
    /\ LimiterAtRest
    /\ CounterAtRest
    /\ NewHandler
    /\ LocksAtRest
    /\ ShardingAtRest
    /\ MainAtRest

Spec == Init /\ [][Next]_vars

\* a Shutdown that has been called keeps running, the goroutine it starts keeps
\* running, and time passes; nothing obliges a request to call EndRequest
Fairness ==
    /\ \A c \in Callers : WF_vars(Shutdown(c) /\ sdPc[c] # "idle")
    /\ WF_vars(WaiterWait)
    /\ WF_vars(Tick)

FairSpec == Spec /\ Fairness

\* the limiter under every call: Allow, SetRate, SetEnabled, at any time
InitLimiter ==
    /\ \E rate \in 1..MaxRate, burstSize \in 1..MaxBurst : NewRateLimiter(rate, burstSize)
    /\ ShutdownAtRest
    /\ CounterAtRest
    /\ NewHandler
    /\ LocksAtRest
    /\ ShardingAtRest
    /\ MainAtRest

NextLimiter ==
    \/ Allow(MaxCalls)
    \/ \E newRate \in 1..MaxRate : SetRate(newRate)
    \/ \E enabled \in BOOLEAN : SetEnabled(enabled)
    \/ ClockTick(MaxNow)

SpecLimiter == InitLimiter /\ [][NextLimiter]_vars

\* the limiter at a fixed rate, never disabled: only Allow is called
NextSteady ==
    \/ AllowEnabled(MaxSteadyCalls)
    \/ ClockTick(MaxSteadyNow)

SpecSteady == InitLimiter /\ [][NextSteady]_vars

\* either counter under concurrent Incr calls, CurrentQPS calls and the cleaner
InitCounter ==
    /\ \E type \in {"lockfree", "sharded"} : NewCounter(type)
    /\ ShutdownAtRest
    /\ LimiterAtRest
    /\ NewHandler
    /\ LocksAtRest
    /\ ShardingAtRest
    /\ MainAtRest

NextCounter ==
    \/ \E g \in Workers : Incr(g)
    \/ CurrentQPS
    \/ cleanupExpired
    \/ CounterTick(MaxTime)

SpecCounter == InitCounter /\ [][NextCounter]_vars

\* either counter under calls made one after the other, with the cleaner
\* running between them or not
NextSequential ==
    \/ \E g \in Workers :
          \/ IncrBeginSequential(g)
          \/ LockFreeLoad(g)
          \/ LockFreeAdd(g)
          \/ LockFreeCAS(g)
          \/ LockFreeStore(g)
          \/ LockFreeTotal(g)
          \/ ShardedIncr(g)
    \/ ReadBeginSequential
    \/ LockFreeReadTimestamp
    \/ LockFreeReadCount
    \/ ShardedReadSlot
    \/ ReadReturn
    \/ CleanupBeginSequential
    \/ LockFreeExpireLoad
    \/ LockFreeZeroTimestamp
    \/ LockFreeZeroCount
    \/ LockFreeSumTimestamp
    \/ LockFreeSumCount
    \/ ShardedSwap
    \/ CleanupStoreTotal
    \/ StopSequential
    \/ cleanupWorkerReturnSequential
    \/ TickSequential(MaxSeqTime)

SpecSequential == InitCounter /\ [][NextSequential]_vars

\* the service: POST /collect requests served while Shutdown may be called;
\* the limiter holds one token
NextCollect ==
    \/ \E r \in Reqs : Collect(r)
    \/ \E c \in Callers : Shutdown(c)
    \/ WaiterWait
    \/ CtxCancel
    \/ Tick

SpecCollect == InitCounter /\ [][NextCollect]_vars

\* an Incr call that has begun keeps running; nothing obliges the clock, the
\* cleaner or any other caller to act
IncrRuns == \A g \in Workers : WF_vars(Incr(g) /\ wPc[g] # "idle")

FairSpecCounter == SpecCounter /\ IncrRuns

\* either counter under concurrent Incr calls alone: no reader, no cleaner
NextWriters ==
    \/ \E g \in Workers : Incr(g)
    \/ CounterTick(MaxTime)

SpecWriters == InitCounter /\ [][NextWriters]_vars

\* one goroutine makes its Incr calls one after the other, each within one
\* instant: at the first instant, and afterwards only while a cleanupExpired
\* call is in progress, so that every later call runs concurrently with the
\* cleaner, which runs step by step
IncrBeginRace ==
    /\ cNow = StartTime \/ clPc # "idle"
    /\ IncrCall(1, MaxRaceIncrs)
    /\ CounterFrame

TickRace == (\A g \in Workers : wPc[g] = "idle") /\ CounterTick(MaxTime)

NextRace ==
    \/ IncrBeginRace
    \/ \E g \in Workers :
          \/ LockFreeLoad(g)
          \/ LockFreeAdd(g)
          \/ LockFreeCAS(g)
          \/ LockFreeStore(g)
          \/ LockFreeTotal(g)
          \/ ShardedIncr(g)
    \/ cleanupExpired
    \/ TickRace

SpecRace == InitCounter /\ [][NextRace]_vars

\* either sharding manager, built with any arguments, under any sequence of
\* QPS values and memory readings
InitSharding ==
    /\ \/ \E min \in 0..MaxShardsArg, max \in 0..MaxShardsArg :
             NewAdaptiveShardingManager(min, max)
       \/ \E min \in 0..MaxShardsArg, max \in 0..MaxShardsArg,
             threshold \in 0..MaxThresholdArg :
             NewEnhancedAdaptiveShardingManager(min, max, threshold)
    /\ ShutdownAtRest
    /\ LimiterAtRest
    /\ CounterAtRest
    /\ NewHandler
    /\ LocksAtRest
    /\ MainAtRest

NextSharding ==
    \/ AdaptiveAdjustShards
    \/ EnhancedAdjustShards
    \/ \E threshold \in 0..MaxThresholdArg : SetMemoryThreshold(threshold)

SpecSharding == InitSharding /\ [][NextSharding]_vars

\* the weights that SetWeights can leave
WeightsGiven ==
    {[qps |-> Fraction(q, q + m), memory |-> Fraction(m, q + m), pending |-> <<>>] :
        <<q, m>> \in {a \in WeightArgs \X WeightArgs : WeightsAccepted(a[1], a[2])}}

\* two enhanced managers built with the same arguments over the same counter;
\* the second was given some weights once, the first is given weights at any time
InitWeights ==
    /\ \E min \in 1..MaxShardsArg, max \in 1..MaxShardsArg,
          threshold \in 0..MaxThresholdArg :
          EnhancedManagerFields(min, max, threshold)
    /\ weights = DefaultWeights
    /\ twinWeights \in WeightsGiven
    /\ twinShards = currentShards
    /\ ShutdownAtRest
    /\ LimiterAtRest
    /\ CounterAtRest
    /\ NewHandler
    /\ LocksAtRest
    /\ MainAtRest

NextWeights ==
    \/ EnhancedAdjustShards
    \/ \E qpsWeight \in WeightArgs, memoryWeight \in WeightArgs :
          SetWeightsQps(qpsWeight, memoryWeight)
    \/ SetWeightsMemory
    \/ \E qpsWeight \in WeightArgs, memoryWeight \in WeightArgs :
          SetWeightsRejected(qpsWeight, memoryWeight)

SpecWeights == InitWeights /\ [][NextWeights]_vars

\* the ShardedWindow under concurrent Incr, CurrentQPS and cleanupExpired calls,
\* followed at the level of its locks
NextLocks ==
    \/ \E t \in LockThreads : LockIncrBegin(t)
    \/ \E t \in LockThreads : LockScanBegin(t)
    \/ \E t \in LockThreads : LockStep(t)

\* a ShardedWindow on which no call has been made
InitLocks ==
    /\ LocksAtRest
    /\ ShutdownAtRest
    /\ LimiterAtRest
    /\ CounterAtRest
    /\ NewHandler
    /\ ShardingAtRest
    /\ MainAtRest

SpecLocks == InitLocks /\ [][NextLocks]_vars

\* a goroutine that is inside a call keeps running; nothing obliges a call to
\* be made
LocksFairness == \A t \in LockThreads : WF_vars(LockStep(t))

FairSpecLocks == SpecLocks /\ LocksFairness

\* main from config.Load to its return, whatever the configuration
InitMain ==
    /\ MainStart
    /\ NewEnhancedGracefulShutdown(1, 1)
    /\ InitShutdownRest
    /\ LimiterAtRest
    /\ CounterAtRest
    /\ NewHandler
    /\ LocksAtRest
    /\ ShardingAtRest

NextMain ==
    \/ MainLoad
    \/ MainConstruct
    \/ MainQuit
    \/ MainShutdown
    \/ MainShutdownReturned
    \/ MainServerShutdown
    \/ MainDeferCancel
    \/ MainDeferMetricsStop
    \/ MainDeferAdaptiveStop
    \/ MainDeferCounterStop
    \/ MainDeferLoggerSync

SpecMain == InitMain /\ [][NextMain]_vars

\* the lifecycle coordinator with one EndRequest call that no StartRequest matches
NextStray ==
    \/ \E r \in Reqs : StartRequest(r)
    \/ \E r \in Reqs : EndRequest(r)
    \/ EndRequestStray
    \/ \E c \in Callers : Shutdown(c)
    \/ WaiterWait
    \/ CtxCancel
    \/ Tick

SpecStray == Init /\ [][NextStray]_vars

(* ------------------------------ claims --------------------------------- *)

\* the call of Shutdown that ran the Once body has returned
RunnerReturned == sdRunner # 0 /\ sdPc[sdRunner] = "returned"

\* C1: once Shutdown has set shutdownStarted, a StartRequest call that begins
\* afterwards never returns true: no request is in flight (or in EndRequest)
\* on the strength of a call that began with the flag set.
C1_StartAfterShutdownRejected ==
    \A r \in Reqs : beganAfter[r] => reqPc[r] \notin {"in_flight", "er_done_wg"}

\* a StartRequest that began after Shutdown had set the flag has returned false
C1_Witness == rejectedAfter

\* C2: no call of Shutdown has returned nil, with status
\* graceful_shutdown_complete or delayed_shutdown_complete, while a request
\* whose StartRequest returned true has not yet called EndRequest.
C2_NoSuccessWhileInFlight ==
    \A c \in Callers :
        ( /\ sdPc[c] = "returned"
          /\ sdResult[c] = "nil"
          /\ shutdownStatus \in {"graceful_shutdown_complete", "delayed_shutdown_complete"} )
        => InFlight = {}

\* Shutdown returned nil after a drain that outlasted the soft timeout: a
\* request was still busy when it expired and has called EndRequest since
C2_Witness ==
    /\ RunnerReturned
    /\ sdResult[sdRunner] = "nil"
    /\ shutdownStatus = "delayed_shutdown_complete"
    /\ lateAtSoft
    /\ ~ctxDone

\* C3: after the Shutdown that ran the drain has returned nil, ActiveRequests()
\* is 0 at every later observation.
C3_ActiveZeroAfterSuccess ==
    (RunnerReturned /\ sdResult[sdRunner] = "nil") => ActiveRequests = 0

\* StartRequest calls that have incremented the counters and not yet taken the
\* second check: their outcome is open, and they are counted as admitted here
UndecidedStarts == {r \in Reqs : reqPc[r] \in {"sr_add_wg", "sr_recheck"}}

\* C4: at every observation ActiveRequests() is >= 0 and equals the number of
\* StartRequest calls that returned true (or have incremented and may still
\* return true) minus the number of EndRequest calls.
C4_ActiveEqualsAdmittedMinusEnded ==
    /\ ActiveRequests >= 0
    /\ ActiveRequests = netAdmitted + Cardinality(UndecidedStarts)

\* C5: every Shutdown call eventually returns and DoneChan is eventually
\* closed, whether or not the requests in flight ever call EndRequest.
C5_ShutdownTerminates ==
    /\ \A c \in Callers : (sdPc[c] # "idle") ~> (sdPc[c] = "returned")
    /\ (\E c \in Callers : sdPc[c] # "idle") ~> doneChanClosed

\* every Shutdown call has returned and DoneChan is closed while a request
\* that was admitted has still not called EndRequest
C5_Witness ==
    /\ \A c \in Callers : sdPc[c] = "returned"
    /\ doneChanClosed
    /\ InFlight # {}

\* Shutdown reported the forced outcome
ForcedOutcome ==
    /\ sdResult[sdRunner] = "DeadlineExceeded"
    /\ Status = "force_shutdown"
    /\ IsForceShutdown

\* C6 as stated: if max_wait expired while a started request had not called
\* EndRequest, Shutdown returns context.DeadlineExceeded, the final Status()
\* is force_shutdown and IsForceShutdown() is true.
C6_ForcedWhenHardExpiresInFlight ==
    (RunnerReturned /\ lateAtHard) => ForcedOutcome

\* C6 as amended: if a started request has still not called EndRequest when
\* Shutdown returns, Shutdown returned context.DeadlineExceeded, Status() is
\* force_shutdown and IsForceShutdown() is true.
C6_ForcedWhenInFlightAtReturn ==
    (RunnerReturned /\ InFlight # {}) => ForcedOutcome

\* Shutdown has returned the forced outcome with a request still in flight
C6_Witness ==
    RunnerReturned /\ InFlight # {} /\ ForcedOutcome /\ lateAtHard

\* C7: a later call of Shutdown returns what the first call returned; in
\* particular, when the first call was forced because a request never called
\* EndRequest (the context passed to Shutdown not being cancelled), every
\* call returns context.DeadlineExceeded.
C7_ShutdownSameResult ==
    \A c \in Callers :
        ( /\ RunnerReturned
          /\ sdPc[c] = "returned"
          /\ Status = "force_shutdown"
          /\ InFlight # {}
          /\ ~ctxDone )
        => sdResult[c] = "DeadlineExceeded"

\* C8: while requests are in flight the status is timeout_waiting only once
\* the soft timeout has elapsed, and force_shutdown only once max_wait has
\* elapsed, whatever happens to the context passed to Shutdown.
C8_OnlyInternalDeadlines ==
    InFlight # {} =>
        /\ (Status = "timeout_waiting" => elapsed >= shutdownTimeout)
        /\ (Status = "force_shutdown" => elapsed >= maxWaitTime)

\* the status changes the lifecycle allows
AllowedTransitions ==
    { <<"running", "shutting_down">>,
      <<"shutting_down", "graceful_shutdown_complete">>,
      <<"shutting_down", "timeout_waiting">>,
      <<"timeout_waiting", "delayed_shutdown_complete">>,
      <<"timeout_waiting", "force_shutdown">> }

\* C9: the status changes only along running -> shutting_down ->
\* graceful_shutdown_complete or running -> shutting_down -> timeout_waiting ->
\* (delayed_shutdown_complete | force_shutdown): it never returns to running
\* and a terminal label never changes.
C9_StatusTransitions ==
    [][shutdownStatus' # shutdownStatus =>
          <<shutdownStatus, shutdownStatus'>> \in AllowedTransitions]_vars

\* the drain ended between the two deadlines
C9_Witness == Status = "delayed_shutdown_complete" /\ RunnerReturned

\* C10: if every request had called EndRequest (and none was inside
\* StartRequest) when the soft timeout expired, or Shutdown was over before
\* it expired, Shutdown returns nil, the final status is
\* graceful_shutdown_complete and IsForceShutdown() is false.
C10_GracefulWhenDrainedBeforeSoft ==
    (RunnerReturned /\ ~lateAtSoft) =>
        /\ sdResult[sdRunner] = "nil"
        /\ Status = "graceful_shutdown_complete"
        /\ ~IsForceShutdown

\* C11: if the last request in flight calls EndRequest after the soft timeout
\* has expired and before max_wait expires, Shutdown (which has passed through
\* timeout_waiting) returns nil, the final status is
\* delayed_shutdown_complete and IsForceShutdown() is false. The case taken
\* here is the one where max_wait has not expired even when Shutdown returns.
C11_DelayedWhenEndedBetween ==
    ( /\ RunnerReturned
      /\ endedBetween
      /\ elapsed < maxWaitTime
      /\ Status # "graceful_shutdown_complete" )
    => /\ sdResult[sdRunner] = "nil"
       /\ Status = "delayed_shutdown_complete"
       /\ ~IsForceShutdown

\* C12: for a RateLimiter built with burst > 0, 0 <= tokens <= burst after
\* every Allow, SetRate and SetEnabled call, in any order and for any elapsed
\* times.
C12_TokensWithinBurst == rlTokens >= 0 /\ rlTokens <= rlBurstSize

\* C13: after every operation total_count = rejected_count + (Allow calls that
\* returned true while enabled); each enabled Allow adds exactly 1 to
\* total_count, each Allow that returns false adds exactly 1 to
\* rejected_count, and nothing else changes either counter.
C13_TotalIsRejectedPlusAdmitted ==
    [][ /\ rlTotalCount' = rlRejectedCount' + rlAdmitted'
        /\ rlTotalCount' =
              IF rlOp' = "Allow" /\ rlEnabled THEN rlTotalCount + 1 ELSE rlTotalCount
        /\ rlRejectedCount' =
              IF rlOp' = "Allow" /\ ~rlResult' THEN rlRejectedCount + 1
                                               ELSE rlRejectedCount ]_vars

\* calls have been admitted and rejected, and the last Allow found the limiter
\* disabled
C13_Witness ==
    /\ rlRejectedCount >= 1
    /\ rlAdmitted >= 1
    /\ rlOp = "Allow"
    /\ ~rlEnabled

\* the smaller of two numbers
Min(a, b) == IF a < b THEN a ELSE b

\* C14: while enabled, Allow returns true exactly when at least one token is
\* there after the refill step, and then takes exactly one; with none it
\* returns false and leaves tokens as the refill step left them. Hence from a
\* full bucket of burst b with no time elapsing exactly the first b calls
\* return true.
C14_AllowTakesOneTokenIfAny ==
    [][ (rlOp' = "Allow" /\ rlEnabled) =>
          /\ rlResult' = (rlRefilled' >= 1)
          /\ rlTokens' = IF rlResult' THEN rlRefilled' - 1 ELSE rlRefilled'
          /\ (rlSteady /\ rlNow = 0) =>
                /\ rlAdmitted' = Min(rlTotalCount', rlBurstSize)
                /\ rlResult' = (rlTotalCount' <= rlBurstSize) ]_vars

\* with no time elapsed, the call after the first b calls has been rejected
C14_Witness ==
    /\ rlSteady
    /\ rlNow = 0
    /\ rlOp = "Allow"
    /\ ~rlResult
    /\ rlTotalCount = rlBurstSize + 1
    /\ rlAdmitted = rlBurstSize

\* C15: while the limiter is disabled every Allow returns true and leaves
\* tokens, last_refill, total_count and rejected_count unchanged; SetEnabled
\* itself does not change tokens.
C15_DisabledAllowChangesNothing ==
    [][ /\ (rlOp' = "Allow" /\ ~rlEnabled) =>
              /\ rlResult'
              /\ UNCHANGED <<rlTokens, rlLastRefill, rlTotalCount, rlRejectedCount>>
        /\ (rlOp' = "SetEnabled") => UNCHANGED rlTokens ]_vars

\* an Allow has returned true on a disabled limiter whose bucket is empty and
\* which has rejected calls before
C15_Witness ==
    /\ ~rlEnabled
    /\ rlOp = "Allow"
    /\ rlResult
    /\ rlTokens = 0
    /\ rlRejectedCount >= 1

\* floor(r * T), T being the time since NewRateLimiter
RateTimesT == (rlRate * rlNow) \div TicksPerSec

\* C16: starting with a full bucket, at a fixed rate r and burst b, the Allow
\* calls that returned true in [0, T] number at most floor(b + r*T) + 1.
C16_AdmitsAtMostBurstPlusRate ==
    rlSteady => rlAdmitted <= rlBurstSize + RateTimesT + 1

\* time has passed and the admitted calls number exactly b + floor(r*T)
C16_Witness ==
    /\ rlSteady
    /\ rlNow >= 2
    /\ rlAdmitted = rlBurstSize + RateTimesT

\* C17: under saturating load (at every instant Allow is called until it
\* returns false), at a fixed rate r and burst b, starting full, the admitted
\* calls in [0, T] number at least min(requests, floor(r*T)). The buckets
\* taken here are large enough to hold what accrues between two calls
\* (b >= r/TicksPerSec + 1), so that no token is lost to the ceiling.
C17_AdmitsAtLeastRate ==
    ( /\ rlSteady
      /\ rlSaturated
      /\ RejectedNow
      /\ rlBurstSize * TicksPerSec >= rlRate + TicksPerSec )
    => rlAdmitted >= Min(rlTotalCount, RateTimesT)

\* C18: SetRate(r) changes only the rate: tokens, last_refill, enabled,
\* total_count and rejected_count are unchanged by the call, and the next
\* enabled Allow computes its refill with the rate r last given.
C18_SetRateChangesOnlyRate ==
    [][ /\ (rlOp' = "SetRate") =>
              /\ rlRate' = rlRateArg'
              /\ UNCHANGED <<rlTokens, rlLastRefill, rlEnabled, rlTotalCount,
                             rlRejectedCount>>
        /\ (rlOp' = "Allow" /\ rlEnabled) =>
              rlNewTokens' \in ToInt64(ElapsedTimesRate(rlNow - rlLastRefill, rlRateArg)) ]_vars

\* SetRate has just been called on a limiter that has handed out tokens and
\* whose last refill lies in the past
C18_Witness ==
    /\ rlOp = "SetRate"
    /\ rlTokens < rlBurstSize
    /\ rlLastRefill < rlNow
    /\ rlTotalCount >= 1

\* Incr calls that have been made
CallsMade == SumOver(wCalls, Workers)

\* C19: for both counter variants, if the goroutines make their Incr calls
\* concurrently on a fresh counter, all within one window W, a CurrentQPS
\* read that begins after all calls have returned and within that window
\* reports exactly (number of calls) * (1s / W), with the cleaner running.
C19_ConcurrentIncrsAllCounted ==
    ( /\ rdPc = "done"
      /\ rdQuiet
      /\ firstNow # 0
      /\ rdNow < firstNow + WindowSize )
    => qps = (CallsMade * Second) \div WindowSize

\* Incr calls that had not returned more than W before the last read began
FreshCalls ==
    SumOver(returnedAt, {t \in EarlyTimes : t >= WindowStart(rdNow)})
      + returnedLate
      + Cardinality({g \in Workers : wPc[g] # "idle"})

\* C20: for both counter variants, whether or not the cleaner runs,
\* CurrentQPS never includes events whose Incr happened more than W before
\* the read: what it reports is at most the rate of the calls that had not
\* returned more than W before it; the count of an older bucket does not
\* contribute when its slot is used again.
C20_NoStaleEvents ==
    rdPc = "done" => qps <= (FreshCalls * Second) \div WindowSize


C22_SameBucketCallsAllReported ==
    ( /\ rdPc = "done"
      /\ rdQuiet
      /\ firstNow # 0
      /\ Bucket(firstNow) = Bucket(lastNow)
      /\ firstNow >= WindowStart(rdNow) )
    => qps = (CallsMade * Second) \div WindowSize

\* C23: for slot_num * precision >= window_size and both variants: if no
\* Incr is called during an interval of length slot_num * precision, a
\* CurrentQPS call at the end of that interval returns 0, whether or not the
\* cleaner ran during the interval.
C23_ZeroAfterInactivity ==
    ( /\ SlotNum * Precision >= WindowSize
      /\ rdPc = "done"
      /\ rdQuiet
      /\ lastNow < rdNow - SlotNum * Precision )
    => qps = 0

\* calls were made, the cleaner has not emptied their slot, and the read
\* after the inactivity returned 0
C23_Witness ==
    /\ SlotNum * Precision >= WindowSize
    /\ rdPc = "done"
    /\ rdQuiet
    /\ lastNow # 0
    /\ lastNow < rdNow - SlotNum * Precision
    /\ \E s \in Shards, i \in SlotIds : slotCount[s][i] > 0
    /\ qps = 0

\* C24: Stop is idempotent for both variants: a second Stop call after the
\* first has no effect and does not fail; no call of Stop ever panics.
C24_StopNeverPanics == ~cPanicked

\* C25: the two variants are interchangeable: for the same configuration and
\* the same history of Incr calls, clock advances and CurrentQPS calls made
\* one after the other, LockFreeWindow and ShardedWindow return the same
\* value at every read.
C25_VariantsReturnTheSame == rdPc = "done" => qps = twQps

\* Incr calls made by the goroutine of request r since its Collect was called
IncrsOf(r) == wCalls[r] - hBefore[r][3]

\* no other goroutine has served a request
ServedAlone(r) == \A q \in Reqs \ {r} : hServed[q] = 0

C27_ShardsWithinRange ==
    minShards <= maxShards =>
        (minShards <= currentShards /\ currentShards <= maxShards)

\* a tick has scaled up from below max_shards and was capped at max_shards
C27_Witness ==
    /\ tkRan
    /\ minShards < tkShards
    /\ tkShards < maxShards
    /\ tkShards + Half(tkShards) > maxShards
    /\ currentShards = maxShards

\* C28: in the enhanced manager, after every tick that read a memory usage
\* above memory_threshold, current_shards equals min_shards, whatever QPS
\* change the tick observed.
C28_MemoryPressureLeavesMin ==
    (asmKind = "enhanced" /\ tkRan /\ tkMemory > tkThreshold) =>
        currentShards = minShards

\* the latest tick took the memory branch: if memoryUsage > asm.memoryThreshold
\* && currentShards > int32(asm.minShards)
MemoryClampApplied ==
    asmKind = "enhanced" /\ tkMemory > tkThreshold /\ tkShards > minShards

\* C29: after a tick that saw the QPS grow by more than 30% over the previous
\* sample, began below max_shards and took no memory clamp, current_shards is
\* strictly larger than before the tick and equals
\* min(max_shards, before + floor(before * 0.5)), for every shard count >= 1
\* (enhanced manager).
C29_GrowthScalesUp ==
    (/\ asmKind = "enhanced"
     /\ tkRan
     /\ QpsGrew(lastQPS, tkLastQPS)
     /\ tkShards >= 1
     /\ tkShards < maxShards
     /\ ~MemoryClampApplied) =>
        /\ currentShards > tkShards
        /\ currentShards = CapAtMax(tkShards + (tkShards \div 2), maxShards)

\* C30: after a tick that saw the QPS fall by more than 30%, began above
\* min_shards and took no memory clamp, current_shards equals
\* max(min_shards, before - floor(before * 0.3)), in both sharding managers.
C30_DeclineScalesDown ==
    (/\ tkRan
     /\ QpsFell(lastQPS, tkLastQPS)
     /\ tkShards > minShards
     /\ ~MemoryClampApplied) =>
        currentShards = FloorAtMin(tkShards - ((3 * tkShards) \div 10), minShards)

\* C31: config validation returns an error for every counter configuration
\* with slot_num * precision < window_size or precision > window_size, so
\* main never builds a counter whose ring does not cover the window.
C31_RingCoversWindow ==
    (loadErr = "nil" /\ mainPc # "load") =>
        /\ appConfig.slotNum * appConfig.precision >= appConfig.windowSize
        /\ appConfig.precision <= appConfig.windowSize

\* component a was stopped before component b
StoppedBefore(a, b) ==
    \E i, j \in DOMAIN stopLog : i < j /\ stopLog[i] = a /\ stopLog[j] = b

\* C36: when main has returned, the metrics sampler (if started) was stopped
\* before the adaptive controller, the adaptive controller before the counter,
\* and the lifecycle Shutdown ran last, after the counter was stopped.
C36_TeardownOrder ==
    mainPc = "returned" =>
        /\ appConfig.metricsEnabled => StoppedBefore("metrics", "adaptive")
        /\ StoppedBefore("adaptive", "counter")
        /\ StoppedBefore("counter", "lifecycle")

\* C35: an EndRequest call with no matching successful StartRequest does not
\* drive the in-flight count below zero (ActiveRequests() stays >= 0) and
\* does not make the coordinator fail.
C35_StrayEndRequestClamped ==
    /\ ActiveRequests >= 0
    /\ ~gsPanicked

\* C37: every POST /collect whose StartRequest returned true calls EndRequest
\* exactly once on each exit path (202, 429, 400), and one answered 503 never
\* calls it: a handler that has returned holds no request, and once all
\* handlers have returned ActiveRequests() is 0 and the WaitGroup is at 0.
C37_EndRequestOncePerAdmitted ==
    /\ \A r \in Reqs : hPc[r] = "idle" => reqPc[r] = "idle"
    /\ (\A r \in Reqs : hPc[r] = "idle") => (ActiveRequests = 0 /\ wgCount = 0)

\* a handler has returned twice, the second time with 429
C37_Witness ==
    \E r \in Reqs :
      /\ hPc[r] = "idle"
      /\ hServed[r] = MaxCollects
      /\ hResponse[r] = 429
      /\ \A q \in Reqs : hPc[q] = "idle"

\* C32: in LockFreeWindow, when concurrent Incr calls move a slot to a new
\* bucket, one of them re-initialises the slot and every Incr for that bucket
\* is reflected in the slot's count once all the calls have returned: the
\* slot holds a timestamp of the bucket and as many counts as calls were made.
C32_BucketCallsAllInSlot ==
    ( /\ cType = "lockfree"
      /\ \A g \in Workers : wPc[g] = "idle"
      /\ firstNow # 0
      /\ Bucket(firstNow) = Bucket(lastNow) )
    => /\ Bucket(slotTimestamp[0][SlotOf(firstNow)]) = Bucket(firstNow)
       /\ slotCount[0][SlotOf(firstNow)] = CallsMade

\* the total a CurrentQPS call made now would sum: the counts of the slots with
\* timestamp >= now - W
ReadTotalNow ==
    SumPairs(slotCount, {q \in RowsOf(cType) \X SlotIds :
                            slotTimestamp[q[1]][q[2]] >= WindowStart(cNow)})

\* C33: with the lock-free cleaner running concurrently with Incr, the
\* increments made within the window that a CurrentQPS call does not report
\* are at most slot_num, whatever the interleaving of cleanupExpired's steps
\* with the Incr calls.  The calls counted are those made at instants within
\* the window of every read followed.
C33_CleanupRaceLosesAtMostN ==
    ( /\ cType = "lockfree"
      /\ \A g \in Workers : wPc[g] = "idle"
      /\ clPc = "idle" )
    => returnedLate - ReadTotalNow <= SlotNum

\* the count a slot of the sharded counter holds for the window that ends at
\* now: nothing when the slot's timestamp is older than now - W
LiveCount(s, i, now) ==
    IF slotTimestamp[s][i] >= WindowStart(now) THEN slotCount[s][i] ELSE 0

\* C34: in ShardedWindow, an Incr that completes while a cleanupExpired call
\* is in progress adds exactly one to what its slot holds for the window (it
\* is not lost, and a count left under an expired timestamp is not carried
\* over), and the cleaner's swap of a shard keeps the count of every slot
\* whose timestamp is within the window.
C34_IncrDuringCleanup ==
    [][ /\ \A g \in Workers :
              ( /\ cType = "sharded"
                /\ clPc # "idle"
                /\ wPc[g] = "locked"
                /\ wPc'[g] = "idle" )
              => slotCount'[ShardOf(wNow[g])][SlotOf(wNow[g])] =
                     LiveCount(ShardOf(wNow[g]), SlotOf(wNow[g]), wNow[g]) + 1
        /\ (cType = "sharded" /\ clPc = "swap" /\ <<clPc, clIdx>>' # <<clPc, clIdx>>)
              => \A i \in KeptSlots(clIdx) :
                     slotCount'[clIdx][i] = slotCount[clIdx][i]
      ]_vars

\* C40: in both counter variants, whenever no Incr and no cleanupExpired call
\* is in progress, totalCount equals the sum of the counts of the slots whose
\* timestamp is >= now - W.
C40_TotalCountIsWindowSum ==
    (WorkersIdle /\ CleanerIdle) => totalCount = ReadTotalNow

C38_EveryCallReturns ==
    \A t \in LockThreads : (lkThread[t].pc # "idle") ~> (lkThread[t].pc = "idle")

\* a goroutine holds the read lock of a shard and waits for a slot lock that
\* another holds, while a cleanupExpired call waits for the write lock of that
\* shard and a further reader is held back by it
C38_Witness ==
    \E s \in Shards :
        /\ shardLock[s].pending # {}
        /\ \E t \in shardLock[s].readers : lkThread[t].pc = "slot_pending"
        /\ \E t \in LockThreads :
              /\ lkThread[t].pc = "shard"
              /\ lkThread[t].shard = s
              /\ ~WritesShard(lkThread[t].call)

====
